---- MODULE Spec2Model ----
(***************************************************************************)
(* Model of the Specter bootloader: the Start-up selector                  *)
(* (platforms/stm32f469disco/startup/startup.c), the integrity check       *)
(* records (core/bl_integrity_check.c) and the upgrade state machine       *)
(* (core/bootloader.c) over a byte-addressed flash memory.                 *)
(*                                                                         *)
(* 32-bit words are kept as 4-byte little-endian tuples <<b0,b1,b2,b3>>,   *)
(* which is both their layout in flash and a representation that keeps the *)
(* full uint32_t range.                                                    *)
(***************************************************************************)
EXTENDS Integers, Sequences, FiniteSets, TLC

(***************************************************************************)
(* Bounds of the model                                                     *)
(***************************************************************************)
\* Bytes available for payload in a Bootloader slot (slot size - overhead)
BootPlArea == 3
\* Bytes available for payload in the Main Firmware section
MainPlArea == 3

(***************************************************************************)
(* Byte and 32-bit word helpers                                            *)
(***************************************************************************)
Byte == 0..255

RECURSIVE XorBits(_, _, _)
XorBits(a, b, n) ==
  IF n = 0 THEN 0
  ELSE ((a + b) % 2) + 2 * XorBits(a \div 2, b \div 2, n - 1)

xor8_table == [a \in Byte |-> [b \in Byte |-> XorBits(a, b, 8)]]

Xor8(a, b) == xor8_table[a][b]

RECURSIVE And8(_, _)
And8(a, b) ==
  IF a = 0 \/ b = 0 THEN 0
  ELSE ((a % 2) * (b % 2)) + 2 * And8(a \div 2, b \div 2)

Xor32(v, w) ==
  <<Xor8(v[1], w[1]), Xor8(v[2], w[2]), Xor8(v[3], w[3]), Xor8(v[4], w[4])>>

Shr1(v) ==
  <<(v[1] \div 2) + 128 * (v[2] % 2), (v[2] \div 2) + 128 * (v[3] % 2),
    (v[3] \div 2) + 128 * (v[4] % 2), v[4] \div 2>>

Shr8(v) == <<v[2], v[3], v[4], 0>>

Not32(v) == <<255 - v[1], 255 - v[2], 255 - v[3], 255 - v[4]>>

\* Little-endian bytes of a number below 2^31
U32(n) ==
  <<n % 256, (n \div 256) % 256, (n \div 65536) % 256, n \div 16777216>>

\* v <= w for two 32-bit words
Le32(v, w) ==
  \/ v[4] < w[4]
  \/ v[4] = w[4] /\ v[3] < w[3]
  \/ v[4] = w[4] /\ v[3] = w[3] /\ v[2] < w[2]
  \/ v[4] = w[4] /\ v[3] = w[3] /\ v[2] = w[2] /\ v[1] <= w[1]

\* v > w for two 32-bit words
Gt32(v, w) == ~Le32(v, w)

\* TRUE when the word is below 2^31 and ToNat gives its value
FitsNat(v) == v[4] < 128

ToNat(v) == v[1] + 256 * v[2] + 65536 * v[3] + 16777216 * v[4]

ZERO32 == <<0, 0, 0, 0>>

RECURSIVE Repeat(_, _)
Repeat(b, n) == IF n = 0 THEN <<>> ELSE <<b>> \o Repeat(b, n - 1)

(***************************************************************************)
(* CRC-32 (reflected, polynomial 0xEDB88320), lib/crc32                    *)
(***************************************************************************)
CRC32_POLY == <<32, 131, 184, 237>>

RECURSIVE crc_table_entry(_, _)
crc_table_entry(c, k) ==
  IF k = 0 THEN c
  ELSE crc_table_entry(IF c[1] % 2 = 1 THEN Xor32(Shr1(c), CRC32_POLY)
                                       ELSE Shr1(c), k - 1)

crc32_table == [n \in Byte |-> crc_table_entry(<<n, 0, 0, 0>>, 8)]

crc32_step(crc, byte) ==
  Xor32(Shr8(crc), crc32_table[Xor8(crc[1], byte)])

\* The test on c[1] makes the running value be computed before the next
\* byte is taken, so the evaluation stays shallow for long inputs.
RECURSIVE crc32_update(_, _, _)
crc32_update(crc, data, i) ==
  IF i > Len(data) THEN crc
  ELSE LET c == crc32_step(crc, data[i])
       IN IF c[1] >= 0 THEN crc32_update(c, data, i + 1) ELSE c

crc32_fast(data, previousCrc32) ==
  Not32(crc32_update(Not32(previousCrc32), data, 1))

(***************************************************************************)
(* Flash memory map (linker variables) and constants of the records        *)
(***************************************************************************)
BL_ICR_SIZE == 32
BL_VCR_SIZE == 32
BL_FW_SECT_OVERHEAD == BL_ICR_SIZE + BL_VCR_SIZE
BL_ICR_OFFSET_FROM_END == BL_ICR_SIZE + BL_VCR_SIZE
\* 0x47544E49, "INTG"
BL_ICR_MAGIC == <<73, 78, 84, 71>>
BL_ICR_STRUCT_REV == U32(1)
ICR_CRC_CHECKED_SIZE == 28
\* 4199999999 = 0xFA56E9FF
BL_VERSION_MAX == <<255, 233, 86, 250>>
BL_VERSION_NA == ZERO32

_main_firmware_start == 16
_main_firmware_size == MainPlArea + BL_FW_SECT_OVERHEAD
_bl_sect_size == BootPlArea + BL_FW_SECT_OVERHEAD
_bl_copy1_start == _main_firmware_start + _main_firmware_size
_bl_copy2_start == _bl_copy1_start + _bl_sect_size
_bl_image_base == 8

\* Region to which the Bootloader has access
FLASH_WR_BASE == _main_firmware_start
FLASH_WR_SIZE == _main_firmware_size + 2 * _bl_sect_size
FlashAddrs == FLASH_WR_BASE..(FLASH_WR_BASE + FLASH_WR_SIZE - 1)

\* Sectors of the flash memory: each Bootloader copy occupies one sector;
\* the Main Firmware area, erased by one call of the HAL, is kept as one
flash_layout ==
  << [base_address |-> _main_firmware_start, sector_size |-> _main_firmware_size],
     [base_address |-> _bl_copy1_start, sector_size |-> _bl_sect_size],
     [base_address |-> _bl_copy2_start, sector_size |-> _bl_sect_size] >>

\* Index of the sector holding an address, 0 if none
flash_get_sector_info(addr) ==
  IF \E k \in 1..Len(flash_layout) :
        /\ addr >= flash_layout[k].base_address
        /\ addr < flash_layout[k].base_address + flash_layout[k].sector_size
  THEN CHOOSE k \in 1..Len(flash_layout) :
        /\ addr >= flash_layout[k].base_address
        /\ addr < flash_layout[k].base_address + flash_layout[k].sector_size
  ELSE 0

check_flash_area(addr, size) ==
  addr >= FLASH_WR_BASE /\ addr + size <= FLASH_WR_BASE + FLASH_WR_SIZE

\* Bytes addr .. addr+len-1 of a memory image
MemRead(fl, addr, len) == [i \in 1..len |-> fl[addr + i - 1]]

\* Result of the flash system calls: [ok, value]
blsys_flash_read(fl, addr, len) ==
  IF len # 0 /\ check_flash_area(addr, len)
  THEN [ok |-> TRUE, buf |-> MemRead(fl, addr, len)]
  ELSE [ok |-> FALSE, buf |-> <<>>]

blsys_flash_crc32(fl, crc, addr, len) ==
  IF len # 0 /\ check_flash_area(addr, len)
  THEN [ok |-> TRUE, crc |-> crc32_fast(MemRead(fl, addr, len), crc)]
  ELSE [ok |-> FALSE, crc |-> crc]

(***************************************************************************)
(* Integrity check records, core/bl_integrity_check.c                      *)
(***************************************************************************)
\* k-th 32-bit word (from 0) of a packed structure
Word(rec, k) == SubSeq(rec, 4 * k + 1, 4 * k + 4)

icr_magic(icr) == Word(icr, 0)
icr_struct_rev(icr) == Word(icr, 1)
icr_pl_ver(icr) == Word(icr, 2)
icr_main_pl_size(icr) == Word(icr, 3)
icr_main_pl_crc(icr) == Word(icr, 4)
icr_aux_pl_size(icr) == Word(icr, 5)
icr_aux_pl_crc(icr) == Word(icr, 6)
icr_struct_crc(icr) == Word(icr, 7)

bl_icr_check_sect_size(sect_size, pl_size) ==
  /\ sect_size # 0
  /\ pl_size # 0
  /\ sect_size <= 2147483647       \* sect_size <= BL_ADDR_MAX - sect_size
  /\ pl_size \div 2 <= 2147483615  \* pl_size <= UINT32_MAX - 64
  /\ pl_size + BL_FW_SECT_OVERHEAD <= sect_size

\* [ok, icr]: the record built for a payload of pl_size bytes at main_addr
icr_struct_create_main(fl, main_addr, main_size, pl_size, pl_ver) ==
  IF main_size # 0 /\ pl_size # 0
  THEN LET res == blsys_flash_crc32(fl, ZERO32, main_addr, pl_size)
           body == BL_ICR_MAGIC \o BL_ICR_STRUCT_REV \o pl_ver \o U32(pl_size)
                     \o res.crc \o ZERO32 \o ZERO32
       IN IF res.ok
          THEN [ok |-> TRUE, icr |-> body \o crc32_fast(body, ZERO32)]
          ELSE [ok |-> FALSE, icr |-> <<>>]
  ELSE [ok |-> FALSE, icr |-> <<>>]

\* A validation that does not check the CRC of the record
icr_validate_no_crc(icr) ==
  /\ icr_magic(icr) = BL_ICR_MAGIC
  /\ icr_struct_rev(icr) = BL_ICR_STRUCT_REV
  /\ Le32(icr_pl_ver(icr), BL_VERSION_MAX)

icr_validate(icr) ==
  /\ icr_magic(icr) = BL_ICR_MAGIC
  /\ icr_struct_rev(icr) = BL_ICR_STRUCT_REV
  /\ crc32_fast(SubSeq(icr, 1, ICR_CRC_CHECKED_SIZE), ZERO32) = icr_struct_crc(icr)
  /\ Le32(icr_pl_ver(icr), BL_VERSION_MAX)

\* A verification that does not compare the CRC of the payload
icr_verify_main_crc_unchecked(fl, icr, main_addr) ==
  /\ icr_aux_pl_size(icr) = ZERO32
  /\ icr_aux_pl_crc(icr) = ZERO32
  /\ FitsNat(icr_main_pl_size(icr))
  /\ blsys_flash_crc32(fl, ZERO32, main_addr,
                       ToNat(icr_main_pl_size(icr))).ok

icr_verify_main(fl, icr, main_addr) ==
  /\ icr_aux_pl_size(icr) = ZERO32
  /\ icr_aux_pl_crc(icr) = ZERO32
  /\ FitsNat(icr_main_pl_size(icr))
  /\ LET res == blsys_flash_crc32(fl, ZERO32, main_addr,
                                  ToNat(icr_main_pl_size(icr)))
     IN res.ok /\ res.crc = icr_main_pl_crc(icr)

\* [ok, icr]: the record read from the end of a section, ok if it validates
icr_get(fl, sect_addr, sect_size) ==
  IF sect_size # 0 /\ sect_size > BL_FW_SECT_OVERHEAD
  THEN LET icr_addr == sect_addr + sect_size - BL_ICR_OFFSET_FROM_END
           rd == blsys_flash_read(fl, icr_addr, BL_ICR_SIZE)
       IN IF rd.ok /\ icr_validate(rd.buf)
          THEN [ok |-> TRUE, icr |-> rd.buf]
          ELSE [ok |-> FALSE, icr |-> rd.buf]
  ELSE [ok |-> FALSE, icr |-> <<>>]

\* [ok, pl_ver]
bl_icr_verify(fl, sect_addr, sect_size) ==
  IF sect_size # 0
  THEN LET g == icr_get(fl, sect_addr, sect_size)
       IN IF g.ok /\ icr_verify_main(fl, g.icr, sect_addr)
          THEN [ok |-> TRUE, pl_ver |-> icr_pl_ver(g.icr)]
          ELSE [ok |-> FALSE, pl_ver |-> BL_VERSION_NA]
  ELSE [ok |-> FALSE, pl_ver |-> BL_VERSION_NA]

\* Addresses blsys_flash_crc32() reads for icr_verify_main(): none when the
\* record is rejected before the call or the call rejects the area
icr_verify_main_reads(icr, main_addr) ==
  IF /\ icr_aux_pl_size(icr) = ZERO32
     /\ icr_aux_pl_crc(icr) = ZERO32
     /\ FitsNat(icr_main_pl_size(icr))
     /\ ToNat(icr_main_pl_size(icr)) # 0
     /\ check_flash_area(main_addr, ToNat(icr_main_pl_size(icr)))
  THEN main_addr..(main_addr + ToNat(icr_main_pl_size(icr)) - 1)
  ELSE {}

\* Addresses of which bl_icr_verify() computes the CRC of the payload
bl_icr_verify_reads(fl, sect_addr, sect_size) ==
  IF sect_size # 0 /\ icr_get(fl, sect_addr, sect_size).ok
  THEN icr_verify_main_reads(icr_get(fl, sect_addr, sect_size).icr, sect_addr)
  ELSE {}

\* A version read only from a section that passes bl_icr_verify()
bl_icr_get_version_verified(fl, sect_addr, sect_size) ==
  IF sect_size # 0 /\ sect_size > BL_FW_SECT_OVERHEAD
  THEN LET rd == blsys_flash_read(fl,
                   sect_addr + sect_size - BL_ICR_OFFSET_FROM_END, BL_ICR_SIZE)
           ok == /\ rd.ok
                 /\ icr_magic(rd.buf) = BL_ICR_MAGIC
                 /\ icr_struct_rev(rd.buf) = BL_ICR_STRUCT_REV
                 /\ crc32_fast(SubSeq(rd.buf, 1, ICR_CRC_CHECKED_SIZE), ZERO32)
                      = icr_struct_crc(rd.buf)
                 /\ Le32(icr_pl_ver(rd.buf), BL_VERSION_MAX)
                 /\ icr_aux_pl_size(rd.buf) = ZERO32
                 /\ icr_aux_pl_crc(rd.buf) = ZERO32
                 /\ FitsNat(icr_main_pl_size(rd.buf))
                 /\ LET res == blsys_flash_crc32(fl, ZERO32, sect_addr,
                                  ToNat(icr_main_pl_size(rd.buf)))
                    IN res.ok /\ res.crc = icr_main_pl_crc(rd.buf)
       IN IF ok THEN [ok |-> TRUE, pl_ver |-> icr_pl_ver(rd.buf)]
                ELSE [ok |-> FALSE, pl_ver |-> BL_VERSION_NA]
  ELSE [ok |-> FALSE, pl_ver |-> BL_VERSION_NA]

\* [ok, pl_ver]
bl_icr_get_version(fl, sect_addr, sect_size) ==
  IF sect_size # 0
  THEN LET g == icr_get(fl, sect_addr, sect_size)
       IN IF g.ok THEN [ok |-> TRUE, pl_ver |-> icr_pl_ver(g.icr)]
                  ELSE [ok |-> FALSE, pl_ver |-> BL_VERSION_NA]
  ELSE [ok |-> FALSE, pl_ver |-> BL_VERSION_NA]

(***************************************************************************)
(* Version check records, core/bl_integrity_check.c                        *)
(***************************************************************************)
\* "VERSIONCHECKREC" with its terminating zero
BL_VCR_MAGIC ==
  <<86, 69, 82, 83, 73, 79, 78, 67, 72, 69, 67, 75, 82, 69, 67, 0>>
BL_VCR_STRUCT_REV == <<1, 0, 0, 0>>
VCR_CRC_CHECKED_SIZE == 28
BL_VCR_OFFSET_FROM_END == BL_VCR_SIZE

\* bl_vcr_place_t: the placements a value of the enumeration selects
bl_vcr_starting == {"starting"}
bl_vcr_ending == {"ending"}
bl_vcr_any == bl_vcr_starting \cup bl_vcr_ending

vcr_magic(vcr) == SubSeq(vcr, 1, 16)
vcr_struct_rev(vcr) == Word(vcr, 4)
vcr_pl_ver(vcr) == Word(vcr, 5)
vcr_struct_crc(vcr) == Word(vcr, 7)

vcr_validate(vcr) ==
  /\ vcr_magic(vcr) = BL_VCR_MAGIC
  /\ vcr_struct_rev(vcr) = BL_VCR_STRUCT_REV
  /\ crc32_fast(SubSeq(vcr, 1, VCR_CRC_CHECKED_SIZE), ZERO32) = vcr_struct_crc(vcr)
  /\ Le32(vcr_pl_ver(vcr), BL_VERSION_MAX)

\* [ok, vcr]
vcr_get(fl, vcr_addr) ==
  LET rd == blsys_flash_read(fl, vcr_addr, BL_VCR_SIZE)
  IN IF rd.ok /\ vcr_validate(rd.buf)
     THEN [ok |-> TRUE, vcr |-> rd.buf]
     ELSE [ok |-> FALSE, vcr |-> rd.buf]

\* sect_size && sect_size > BL_FW_SECT_OVERHEAD &&
\* sect_size > BL_VCR_OFFSET_FROM_END && sect_addr < BL_ADDR_MAX - sect_size
vcr_check_sect(sect_addr, sect_size) ==
  /\ sect_size # 0
  /\ sect_size > BL_FW_SECT_OVERHEAD
  /\ sect_size > BL_VCR_OFFSET_FROM_END
  /\ sect_addr \div 2 + sect_size \div 2 < 2147483647

\* A reading that returns the version of the starting record whenever that
\* record is valid
bl_vcr_get_version_starting_first(fl, sect_addr, sect_size, place) ==
  LET vs == vcr_get(fl, sect_addr)
      ve == vcr_get(fl, sect_addr + sect_size - BL_VCR_OFFSET_FROM_END)
  IN IF ~vcr_check_sect(sect_addr, sect_size) THEN BL_VERSION_NA
     ELSE IF "starting" \in place /\ vs.ok THEN vcr_pl_ver(vs.vcr)
     ELSE IF "ending" \in place /\ ve.ok THEN vcr_pl_ver(ve.vcr)
     ELSE BL_VERSION_NA

\* The version as a 32-bit word
bl_vcr_get_version(fl, sect_addr, sect_size, place) ==
  IF vcr_check_sect(sect_addr, sect_size)
  THEN LET vs == vcr_get(fl, sect_addr)
           v1 == IF "starting" \in place /\ vs.ok
                    /\ Gt32(vcr_pl_ver(vs.vcr), BL_VERSION_NA)
                 THEN vcr_pl_ver(vs.vcr) ELSE BL_VERSION_NA
           ve == vcr_get(fl, sect_addr + sect_size - BL_VCR_OFFSET_FROM_END)
       IN IF "ending" \in place /\ ve.ok /\ Gt32(vcr_pl_ver(ve.vcr), v1)
          THEN vcr_pl_ver(ve.vcr) ELSE v1
  ELSE BL_VERSION_NA

\* bl_vcr_create() up to its call of blsys_flash_write(): [ok, addr, data]
bl_vcr_create(sect_addr, sect_size, pl_ver, place) ==
  IF /\ vcr_check_sect(sect_addr, sect_size)
     /\ Le32(U32(pl_ver), BL_VERSION_MAX)
     /\ place \in {bl_vcr_starting, bl_vcr_ending}
  THEN LET body == BL_VCR_MAGIC \o BL_VCR_STRUCT_REV \o U32(pl_ver) \o ZERO32
       IN [ok |-> TRUE,
           addr |-> IF place = bl_vcr_starting THEN sect_addr
                    ELSE sect_addr + sect_size - BL_VCR_OFFSET_FROM_END,
           data |-> body \o crc32_fast(body, ZERO32)]
  ELSE [ok |-> FALSE, addr |-> 0, data |-> <<>>]

(***************************************************************************)
(* Start-up selector, platforms/stm32f469disco/startup/startup.c           *)
(***************************************************************************)
startup_error_internal == 1
startup_error_no_bootloader == 2

n_copies == 2
bl_addr == [idx \in 0..(n_copies - 1) |->
              IF idx = 0 THEN _bl_copy1_start ELSE _bl_copy2_start]

\* version[] after the first loop: version[idx] stays BL_VERSION_NA when
\* bl_icr_get_version() fails
sel_versions(fl) ==
  [idx \in 0..(n_copies - 1) |->
     bl_icr_get_version(fl, bl_addr[idx], _bl_sect_size)]

\* A first loop that keeps the copy with the lowest version
RECURSIVE sel_find_lowest(_, _, _)
sel_find_lowest(ver, idx, selected) ==
  IF idx >= n_copies THEN selected
  ELSE sel_find_lowest(ver, idx + 1,
         IF /\ ver[idx].ok
            /\ \/ selected = -1
               \/ Gt32(ver[selected].pl_ver, ver[idx].pl_ver)
         THEN idx ELSE selected)

\* A first loop that keeps the first copy with a version, whatever the
\* versions of the others
RECURSIVE sel_find_first(_, _, _)
sel_find_first(ver, idx, selected) ==
  IF idx >= n_copies THEN selected
  ELSE sel_find_first(ver, idx + 1,
         IF ver[idx].ok /\ selected = -1 THEN idx ELSE selected)

\* First loop: index of the copy with the latest version, -1 if none
RECURSIVE sel_find_latest(_, _, _)
sel_find_latest(ver, idx, selected) ==
  IF idx >= n_copies THEN selected
  ELSE sel_find_latest(ver, idx + 1,
         IF /\ ver[idx].ok
            /\ \/ selected = -1
               \/ Gt32(ver[idx].pl_ver, ver[selected].pl_ver)
         THEN idx ELSE selected)

\* A search for a replacement that does not compare the versions
RECURSIVE sel_find_replacement_any_version(_, _, _, _, _)
sel_find_replacement_any_version(fl, ver, selected, stack_word, idx) ==
  IF idx >= n_copies THEN -1
  ELSE IF /\ idx # selected
          /\ bl_icr_verify(fl, bl_addr[idx], _bl_sect_size).ok
       THEN idx
       ELSE sel_find_replacement_any_version(fl, ver, selected, stack_word,
                                             idx + 1)

\* Last loop: a replacement copy with the same version and valid contents;
\* with selected = -1 the code compares with version[-1], a word of the stack
\* outside the array, given here as stack_word
RECURSIVE sel_find_replacement(_, _, _, _, _)
sel_find_replacement(fl, ver, selected, stack_word, idx) ==
  IF idx >= n_copies THEN -1
  ELSE IF /\ idx # selected
          /\ ver[idx].pl_ver = (IF selected >= 0 THEN ver[selected].pl_ver
                                                 ELSE stack_word)
          /\ bl_icr_verify(fl, bl_addr[idx], _bl_sect_size).ok
       THEN idx
       ELSE sel_find_replacement(fl, ver, selected, stack_word, idx + 1)

\* Indices of version[] the last loop uses from idx on: each pass with
\* idx != selected evaluates version[idx] == version[selected]
RECURSIVE sel_find_replacement_accesses(_, _, _, _, _)
sel_find_replacement_accesses(fl, ver, selected, stack_word, idx) ==
  IF idx >= n_copies THEN {}
  ELSE IF idx = selected
       THEN sel_find_replacement_accesses(fl, ver, selected, stack_word, idx + 1)
       ELSE {idx, selected} \cup
            IF /\ ver[idx].pl_ver = (IF selected >= 0 THEN ver[selected].pl_ver
                                                      ELSE stack_word)
               /\ bl_icr_verify(fl, bl_addr[idx], _bl_sect_size).ok
            THEN {}
            ELSE sel_find_replacement_accesses(fl, ver, selected, stack_word,
                                               idx + 1)

\* Indices of version[] that select_bootloader() uses: the first loop
\* writes version[idx] for every idx and reads version[selected] only with
\* selected != -1
select_bootloader_accesses(fl, stack_word) ==
  LET ver == sel_versions(fl)
      selected == sel_find_latest(ver, 0, -1)
  IN (0..(n_copies - 1)) \cup
     IF selected >= 0 /\ bl_icr_verify(fl, bl_addr[selected], _bl_sect_size).ok
     THEN {}
     ELSE sel_find_replacement_accesses(fl, ver, selected, stack_word, 0)

\* A selector without the search for a replacement copy
select_bootloader_no_replacement(fl, stack_word) ==
  LET ver == sel_versions(fl)
      selected == sel_find_latest(ver, 0, -1)
  IN IF selected >= 0 /\ bl_icr_verify(fl, bl_addr[selected], _bl_sect_size).ok
     THEN [found |-> TRUE, addr |-> bl_addr[selected]]
     ELSE [found |-> FALSE, addr |-> 0]

\* [found, addr]: found = FALSE stands for fatal_error(no_bootloader)
select_bootloader(fl, stack_word) ==
  LET ver == sel_versions(fl)
      selected == sel_find_latest(ver, 0, -1)
  IN IF selected >= 0 /\ bl_icr_verify(fl, bl_addr[selected], _bl_sect_size).ok
     THEN [found |-> TRUE, addr |-> bl_addr[selected]]
     ELSE LET repl == sel_find_replacement(fl, ver, selected, stack_word, 0)
          IN IF repl >= 0 THEN [found |-> TRUE, addr |-> bl_addr[repl]]
                          ELSE [found |-> FALSE, addr |-> 0]

(***************************************************************************)
(* Start-up mailbox, core/startup_mailbox.c                                *)
(***************************************************************************)
\* The 28 bytes of bl_args_t covered by struct_crc
ArgsBytes(loaded_from, startup_version) ==
  U32(loaded_from) \o startup_version \o Repeat(0, 20)

\* Arguments stored with the CRC field left at zero
bl_write_args_no_crc(source) ==
  [loaded_from |-> source.loaded_from,
   startup_version |-> source.startup_version,
   struct_crc |-> ZERO32]

bl_write_args(source) ==
  [loaded_from |-> source.loaded_from,
   startup_version |-> source.startup_version,
   struct_crc |-> crc32_fast(ArgsBytes(source.loaded_from,
                                       source.startup_version), ZERO32)]

\* TRUE when the stored CRC validates
bl_read_args(mbox) ==
  crc32_fast(ArgsBytes(mbox.loaded_from, mbox.startup_version), ZERO32)
    = mbox.struct_crc

\* "<version:tag10>0000000001</version:tag10>" decoded by bl_decode_version_tag
startup_version_tag == U32(1)

(***************************************************************************)
(* Upgrade file: a sequence of sections, each a header and a payload.      *)
(* A header is the record                                                  *)
(*   [hdr_ok, name, pl_ver, pl_size, pl_crc, platform, base_addr,          *)
(*    algorithm]                                                           *)
(* where hdr_ok stands for the magic, struct_rev, struct_crc, name and     *)
(* attribute-list checks of blsect_validate_header().  The payload of a    *)
(* Payload section is a sequence of bytes; the payload of the Signature    *)
(* section is a sequence of records [fingerprint, by, over]: a signature   *)
(* made with key `by` over message `over`, stored under `fingerprint`.     *)
(***************************************************************************)
SECT_HEADER_SIZE == 256
SIGNATURE_REC_SIZE == 80
BL_PAYLOAD_SIZE_MAX == 16 * 1024 * 1024
MAX_SIGSECTION_SIZE == 32 * 80
NAME_BOOT == "boot"
NAME_MAIN == "main"
BL_SIGNATURE_SECT_NAME == "sign"
ALG_SECP256K1_SHA256 == "secp256k1-sha256"
PLATFORM_ID == "stm32f469disco"

NoSection == [loaded |-> FALSE, header |-> <<>>, sect_idx |-> 0]
NoMetadata ==
  [main_section |-> NoSection, boot_section |-> NoSection,
   sig_section |-> NoSection, sig_payload |-> <<>>]

\* Bytes of a Signature section payload: two bytes stand for one record
SigPayloadBytes(recs) ==
  [i \in 1..(2 * Len(recs)) |->
     IF i % 2 = 1 THEN recs[(i + 1) \div 2].fingerprint
                  ELSE recs[i \div 2].by + (IF recs[i \div 2].over = "file"
                                            THEN 0 ELSE 128)]

blsect_validate_header(hdr) ==
  /\ hdr.hdr_ok
  /\ hdr.pl_ver >= 0
  /\ Le32(U32(hdr.pl_ver), BL_VERSION_MAX)
  /\ hdr.pl_size # 0
  /\ hdr.pl_size <= BL_PAYLOAD_SIZE_MAX

blsect_is_signature(hdr) == hdr.name = BL_SIGNATURE_SECT_NAME

blsect_is_payload(hdr) == hdr.name # BL_SIGNATURE_SECT_NAME

blsect_validate_payload(hdr, pl_buf) ==
  /\ hdr.pl_size # 0
  /\ hdr.pl_size <= BL_PAYLOAD_SIZE_MAX
  /\ hdr.pl_crc = crc32_fast(pl_buf, ZERO32)

\* Stored size of the payload of section k of the file
SectPlBytes(sect) ==
  IF blsect_is_signature(sect.header)
  THEN SIGNATURE_REC_SIZE * Len(sect.payload) ELSE Len(sect.payload)

RECURSIVE blsys_fsize_from(_, _)
blsys_fsize_from(f, k) ==
  IF k > Len(f.sects) THEN f.trailing
  ELSE SECT_HEADER_SIZE + SectPlBytes(f.sects[k]) + blsys_fsize_from(f, k + 1)

blsys_fsize(f) == blsys_fsize_from(f, 1)

\* The loop of read_metadata(): k is the next section of the file,
\* rm_bytes the bytes not yet consumed; the result is [ok, md]
RECURSIVE read_metadata_loop(_, _, _, _)
read_metadata_loop(f, k, rm_bytes, md) ==
  IF rm_bytes < SECT_HEADER_SIZE
  THEN [ok |-> /\ (md.main_section.loaded \/ md.boot_section.loaded)
               /\ md.sig_section.loaded
               /\ rm_bytes = 0,
        md |-> md]
  ELSE IF k > Len(f.sects)
  THEN [ok |-> FALSE, md |-> md]   \* trailing bytes do not form a header
  ELSE
    LET hdr == f.sects[k].header
        sect == [loaded |-> TRUE, header |-> hdr, sect_idx |-> k]
    IN IF \/ ~blsect_validate_header(hdr)
          \/ SECT_HEADER_SIZE + hdr.pl_size > rm_bytes
       THEN [ok |-> FALSE, md |-> md]
       ELSE IF blsect_is_signature(hdr)
       THEN IF \/ md.sig_section.loaded
               \/ hdr.pl_size > MAX_SIGSECTION_SIZE
               \/ ~blsect_validate_payload(hdr,
                                    SigPayloadBytes(f.sects[k].payload))
            THEN [ok |-> FALSE, md |-> md]
            ELSE read_metadata_loop(f, k + 1,
                   rm_bytes - (SECT_HEADER_SIZE + hdr.pl_size),
                   [md EXCEPT !.sig_section = sect,
                              !.sig_payload = f.sects[k].payload])
       ELSE IF hdr.name = NAME_BOOT /\ ~md.boot_section.loaded
       THEN read_metadata_loop(f, k + 1,
              rm_bytes - (SECT_HEADER_SIZE + hdr.pl_size),
              [md EXCEPT !.boot_section = sect])
       ELSE IF hdr.name = NAME_MAIN /\ ~md.main_section.loaded
       THEN read_metadata_loop(f, k + 1,
              rm_bytes - (SECT_HEADER_SIZE + hdr.pl_size),
              [md EXCEPT !.main_section = sect])
       ELSE [ok |-> FALSE, md |-> md]

\* A reader that does not mind bytes left over after the last section
read_metadata_trailing_ignored(f) ==
  LET r == read_metadata_loop(f, 1, blsys_fsize(f), NoMetadata)
  IN [ok |-> /\ (r.md.main_section.loaded \/ r.md.boot_section.loaded)
             /\ r.md.sig_section.loaded,
      md |-> r.md]

read_metadata(f) == read_metadata_loop(f, 1, blsys_fsize(f), NoMetadata)

check_sect_compatibility(hdr, sect_base, sect_size) ==
  /\ hdr.platform = PLATFORM_ID
  /\ hdr.base_addr = sect_base
  /\ bl_icr_check_sect_size(sect_size, hdr.pl_size)

check_compatibility(md) ==
  /\ md.boot_section.loaded =>
       check_sect_compatibility(md.boot_section.header, _bl_image_base,
                                _bl_sect_size)
  /\ md.main_section.loaded =>
       check_sect_compatibility(md.main_section.header, _main_firmware_start,
                                _main_firmware_size)

(***************************************************************************)
(* Version policy, core/bootloader.c                                       *)
(***************************************************************************)
version_same == 0
version_newer == 1
version_rc_blocked == 2
version_older == 3
version_invalid == 4

bl_version_is_rc(version) ==
  /\ U32(version) # BL_VERSION_NA
  /\ Le32(U32(version), BL_VERSION_MAX)
  /\ version % 100 <= 98

\* A check that lets release candidates through whatever the flags are
check_version_rc_unchecked(new_ver, curr_ver, allow_rc) ==
  IF U32(new_ver) = BL_VERSION_NA \/ Gt32(U32(new_ver), BL_VERSION_MAX)
  THEN version_invalid
  ELSE IF Gt32(U32(new_ver), curr_ver) THEN version_newer
  ELSE IF U32(new_ver) = curr_ver THEN version_same
  ELSE version_older

\* new_ver is the version of the file (a number), curr_ver the word read
\* from the ICR in flash
check_version(new_ver, curr_ver, allow_rc) ==
  IF U32(new_ver) = BL_VERSION_NA \/ Gt32(U32(new_ver), BL_VERSION_MAX)
  THEN version_invalid
  ELSE IF ~allow_rc /\ bl_version_is_rc(new_ver) THEN version_rc_blocked
  ELSE IF Gt32(U32(new_ver), curr_ver) THEN version_newer
  ELSE IF U32(new_ver) = curr_ver THEN version_same
  ELSE version_older

\* Version information in which the Bootloader is the copy that does not
\* run
get_version_info_inactive(fl, loaded_from) ==
  [bootloader_ver |->
     bl_icr_get_version(fl, IF loaded_from = _bl_copy1_start
                            THEN _bl_copy2_start ELSE _bl_copy1_start,
                        _bl_sect_size).pl_ver,
   main_fw_ver |-> bl_icr_get_version(fl, _main_firmware_start,
                                      _main_firmware_size).pl_ver]

get_version_info(fl, loaded_from) ==
  [bootloader_ver |-> bl_icr_get_version(fl, loaded_from, _bl_sect_size).pl_ver,
   main_fw_ver |-> bl_icr_get_version(fl, _main_firmware_start,
                                      _main_firmware_size).pl_ver]

\* An aggregation that returns the result of the Main Firmware alone
check_versions_main_only(md, curr, allow_rc) ==
  IF md.main_section.loaded
  THEN check_version(md.main_section.header.pl_ver, curr.main_fw_ver, allow_rc)
  ELSE version_same

check_versions(md, curr, allow_rc) ==
  LET check_bl == IF md.boot_section.loaded
                  THEN check_version(md.boot_section.header.pl_ver,
                                     curr.bootloader_ver, allow_rc)
                  ELSE version_same
      check_main == IF md.main_section.loaded
                    THEN check_version(md.main_section.header.pl_ver,
                                       curr.main_fw_ver, allow_rc)
                    ELSE version_same
  IN IF check_main >= check_bl THEN check_main ELSE check_bl

\* The address of the copy that runs, returned as the inactive one
get_inactive_bl_addr_same(loaded_from) == loaded_from

get_inactive_bl_addr(loaded_from) ==
  IF loaded_from = _bl_copy1_start THEN _bl_copy2_start ELSE _bl_copy1_start

(***************************************************************************)
(* Payload verification, hashing and signatures                            *)
(***************************************************************************)
\* Size of the shared IO buffer (BL_IO_BUF_SIZE of the build)
IO_BUF_SIZE == 2

Min(a, b) == IF a < b THEN a ELSE b

\* blsect_validate_payload_from_file(): CRC of the payload read from the
\* file in chunks of IO_BUF_SIZE bytes; a short read fails
RECURSIVE file_crc_loop(_, _, _, _)
file_crc_loop(pl, pos, rm_bytes, crc) ==
  IF rm_bytes = 0 THEN [ok |-> TRUE, crc |-> crc]
  ELSE LET read_len == Min(rm_bytes, IO_BUF_SIZE)
       IN IF pos + read_len > Len(pl)
          THEN [ok |-> FALSE, crc |-> crc]
          ELSE file_crc_loop(pl, pos + read_len, rm_bytes - read_len,
                 crc32_fast(SubSeq(pl, pos + 1, pos + read_len), crc))

blsect_validate_payload_from_file(hdr, pl) ==
  /\ hdr.pl_size # 0
  /\ hdr.pl_size <= BL_PAYLOAD_SIZE_MAX
  /\ LET res == file_crc_loop(pl, 0, hdr.pl_size, ZERO32)
     IN res.ok /\ res.crc = hdr.pl_crc

verify_payload_section(f, sect) ==
  /\ sect.loaded
  /\ blsect_validate_payload_from_file(sect.header,
                                       f.sects[sect.sect_idx].payload)

verify_payload_sections(f, md) ==
  LET n_sect == (IF md.boot_section.loaded THEN 1 ELSE 0) +
                (IF md.main_section.loaded THEN 1 ELSE 0)
      n_valid ==
        (IF md.boot_section.loaded /\ verify_payload_section(f, md.boot_section)
         THEN 1 ELSE 0) +
        (IF md.main_section.loaded /\ verify_payload_section(f, md.main_section)
         THEN 1 ELSE 0)
  IN n_valid # 0 /\ n_valid = n_sect

\* [ok, hash]: the digest is SHA-256(header || payload in flash), kept as
\* the pair it is computed from
blsect_hash_over_flash(fl, hdr, pl_addr) ==
  LET rd == blsys_flash_read(fl, pl_addr, hdr.pl_size)
  IN IF blsect_is_payload(hdr) /\ rd.ok
     THEN [ok |-> TRUE,
           hash |-> [digest |-> <<hdr, rd.buf>>, sect_name |-> hdr.name,
                     pl_ver |-> hdr.pl_ver]]
     ELSE [ok |-> FALSE, hash |-> <<>>]

\* [ok, hash_buf]: hashes of the sections of the file, boot first
hash_flash_sections(fl, md, loaded_from) ==
  LET hb == IF md.boot_section.loaded
            THEN blsect_hash_over_flash(fl, md.boot_section.header,
                                        get_inactive_bl_addr(loaded_from))
            ELSE [ok |-> TRUE, hash |-> <<>>]
      hm == IF md.main_section.loaded
            THEN blsect_hash_over_flash(fl, md.main_section.header,
                                        _main_firmware_start)
            ELSE [ok |-> TRUE, hash |-> <<>>]
  IN [ok |-> hb.ok /\ hm.ok,
      hash_buf |-> (IF md.boot_section.loaded /\ hb.ok THEN <<hb.hash>> ELSE <<>>)
                   \o (IF md.main_section.loaded /\ hm.ok THEN <<hm.hash>> ELSE <<>>)]

\* [ok, msg]: the message is kept as the hash records it encodes
blsect_make_signature_message(hash_buf) ==
  IF /\ Len(hash_buf) # 0
     /\ \A i \in 1..Len(hash_buf) :
           /\ hash_buf[i].sect_name \in {NAME_BOOT, NAME_MAIN}
           /\ hash_buf[i].pl_ver # 0
  THEN [ok |-> TRUE, msg |-> hash_buf]
  ELSE [ok |-> FALSE, msg |-> <<>>]

\* The message a signer of the file has signed: the hashes of its sections
FileMessage(f) ==
  LET md == read_metadata(f).md
      hb == IF md.boot_section.loaded
            THEN <<[digest |-> <<md.boot_section.header,
                                 f.sects[md.boot_section.sect_idx].payload>>,
                    sect_name |-> NAME_BOOT,
                    pl_ver |-> md.boot_section.header.pl_ver]>>
            ELSE <<>>
      hm == IF md.main_section.loaded
            THEN <<[digest |-> <<md.main_section.header,
                                 f.sects[md.main_section.sect_idx].payload>>,
                    sect_name |-> NAME_MAIN,
                    pl_ver |-> md.main_section.header.pl_ver]>>
            ELSE <<>>
  IN hb \o hm

blsig_err_bad_arg == -1
blsig_err_algo_not_supported == -2
blsig_err_out_of_memory == -3
blsig_err_duplicating_sig == -4
blsig_err_verification_fail == -5

BL_PUBKEY_PREFIX == 4
BL_PUBKEY_EOL_PREFIX == 0
BL_PUBKEY_END_OF_LIST == [prefix |-> BL_PUBKEY_EOL_PREFIX, id |-> 0]

\* The set of public keys of the build (keys/test/test_pubkeys.c)
vendor_pubkey_list ==
  << [prefix |-> BL_PUBKEY_PREFIX, id |-> 1],
     [prefix |-> BL_PUBKEY_PREFIX, id |-> 2], BL_PUBKEY_END_OF_LIST >>
maintainer_pubkey_list ==
  << [prefix |-> BL_PUBKEY_PREFIX, id |-> 3], BL_PUBKEY_END_OF_LIST >>
bootloader_sig_threshold == 2
main_fw_sig_threshold == 3

\* bl_pubkey_set of the build
BuildPubkeySet ==
  [vendor_pubkeys |-> vendor_pubkey_list,
   maintainer_pubkeys |-> maintainer_pubkey_list,
   bootloader_sig_threshold |-> bootloader_sig_threshold,
   main_fw_sig_threshold |-> main_fw_sig_threshold]

bl_pubkey_is_end_record(key) == key.prefix = BL_PUBKEY_EOL_PREFIX

\* A check that compares no records
check_duplicating_signatures_none(sig_recs) == Len(sig_recs) # 0

check_duplicating_signatures(sig_recs) ==
  /\ Len(sig_recs) # 0
  /\ \A ref \in 1..Len(sig_recs) : \A check \in (ref + 1)..Len(sig_recs) :
        sig_recs[check].fingerprint # sig_recs[ref].fingerprint

\* The fingerprint of a key is the leading part of its SHA-256
pubkey_fingerprint(key) == key.id

\* Index of the first key of a list with the fingerprint, 0 if none
RECURSIVE find_in_list(_, _, _)
find_in_list(list, fingerprint, k) ==
  IF bl_pubkey_is_end_record(list[k]) THEN 0
  ELSE IF pubkey_fingerprint(list[k]) = fingerprint THEN k
  ELSE find_in_list(list, fingerprint, k + 1)

\* [found, key]
RECURSIVE find_pubkey(_, _, _)
find_pubkey(pubkey_set, fingerprint, l) ==
  IF l > Len(pubkey_set) THEN [found |-> FALSE, key |-> BL_PUBKEY_END_OF_LIST]
  ELSE LET k == find_in_list(pubkey_set[l], fingerprint, 1)
       IN IF k # 0 THEN [found |-> TRUE, key |-> pubkey_set[l][k]]
          ELSE find_pubkey(pubkey_set, fingerprint, l + 1)

\* ECDSA verification of a record made with key `by` over message `over`
verify_signature(f, sig_rec, message, key) ==
  /\ Len(message) # 0
  /\ sig_rec.by = key.id
  /\ sig_rec.over = "file"
  /\ message = FileMessage(f)

\* A loop that leaves out a record whose signature does not verify
RECURSIVE multisig_loop_skip_invalid(_, _, _, _, _, _)
multisig_loop_skip_invalid(f, sig_recs, pubkey_set, message, idx, n_valid) ==
  IF idx > Len(sig_recs) THEN n_valid
  ELSE LET pk == find_pubkey(pubkey_set, sig_recs[idx].fingerprint, 1)
       IN IF pk.found /\ verify_signature(f, sig_recs[idx], message, pk.key)
          THEN multisig_loop_skip_invalid(f, sig_recs, pubkey_set, message,
                                          idx + 1, n_valid + 1)
          ELSE multisig_loop_skip_invalid(f, sig_recs, pubkey_set, message,
                                          idx + 1, n_valid)

\* A loop that counts the records of keys it does not find
RECURSIVE multisig_loop_counts_unknown(_, _, _, _, _, _)
multisig_loop_counts_unknown(f, sig_recs, pubkey_set, message, idx, n_valid) ==
  IF idx > Len(sig_recs) THEN n_valid
  ELSE LET pk == find_pubkey(pubkey_set, sig_recs[idx].fingerprint, 1)
       IN IF pk.found /\ ~verify_signature(f, sig_recs[idx], message, pk.key)
          THEN blsig_err_verification_fail
          ELSE multisig_loop_counts_unknown(f, sig_recs, pubkey_set, message,
                                            idx + 1, n_valid + 1)

\* The loop of blsig_verify_multisig_internal()
RECURSIVE multisig_loop(_, _, _, _, _, _)
multisig_loop(f, sig_recs, pubkey_set, message, idx, n_valid) ==
  IF idx > Len(sig_recs) THEN n_valid
  ELSE LET pk == find_pubkey(pubkey_set, sig_recs[idx].fingerprint, 1)
       IN IF pk.found
          THEN IF verify_signature(f, sig_recs[idx], message, pk.key)
               THEN multisig_loop(f, sig_recs, pubkey_set, message, idx + 1,
                                  n_valid + 1)
               ELSE blsig_err_verification_fail
          ELSE multisig_loop(f, sig_recs, pubkey_set, message, idx + 1, n_valid)

blsig_verify_multisig(f, algorithm, sig_recs, pubkey_set, message) ==
  IF algorithm # ALG_SECP256K1_SHA256 THEN blsig_err_algo_not_supported
  ELSE IF Len(sig_recs) = 0 \/ Len(message) = 0 THEN blsig_err_bad_arg
  ELSE IF ~check_duplicating_signatures(sig_recs) THEN blsig_err_duplicating_sig
  ELSE multisig_loop(f, sig_recs, pubkey_set, message, 1, 0)

\* A verification that accepts any number of valid signatures
verify_multisig_any_count(f, md, p_set, hash_buf) ==
  LET m == blsect_make_signature_message(hash_buf)
      result == blsig_verify_multisig(f, md.sig_section.header.algorithm,
                  md.sig_payload,
                  IF md.boot_section.loaded
                  THEN <<p_set.vendor_pubkeys>>
                  ELSE <<p_set.vendor_pubkeys, p_set.maintainer_pubkeys>>,
                  m.msg)
  IN IF md.sig_section.loaded /\ m.ok
     THEN [ok |-> result >= 0, result |-> result]
     ELSE [ok |-> FALSE, result |-> blsig_err_verification_fail]

\* A verification that looks up the keys of the maintainers for any file
verify_multisig_all_keys(f, md, p_set, hash_buf) ==
  LET m == blsect_make_signature_message(hash_buf)
      result == blsig_verify_multisig(f, md.sig_section.header.algorithm,
                  md.sig_payload,
                  <<p_set.vendor_pubkeys, p_set.maintainer_pubkeys>>, m.msg)
  IN IF md.sig_section.loaded /\ m.ok
     THEN [ok |-> /\ result >= 0
                  /\ IF md.boot_section.loaded
                     THEN result >= p_set.bootloader_sig_threshold
                     ELSE result >= p_set.main_fw_sig_threshold,
           result |-> result]
     ELSE [ok |-> FALSE, result |-> blsig_err_verification_fail]

\* [ok, result] of verify_multisig() of bootloader.c
verify_multisig(f, md, p_set, hash_buf) ==
  LET pubkeys_boot == <<p_set.vendor_pubkeys>>
      pubkeys_main == <<p_set.vendor_pubkeys, p_set.maintainer_pubkeys>>
      n_pl == (IF md.boot_section.loaded THEN 1 ELSE 0) +
              (IF md.main_section.loaded THEN 1 ELSE 0)
      m == blsect_make_signature_message(hash_buf)
  IN IF md.sig_section.loaded /\ n_pl = Len(hash_buf) /\ m.ok
     THEN LET result ==
                blsig_verify_multisig(f, md.sig_section.header.algorithm,
                  md.sig_payload,
                  IF md.boot_section.loaded THEN pubkeys_boot ELSE pubkeys_main,
                  m.msg)
          IN [ok |-> /\ result >= 0
                     /\ IF md.boot_section.loaded
                        THEN result >= p_set.bootloader_sig_threshold
                        ELSE result >= p_set.main_fw_sig_threshold,
              result |-> result]
     ELSE [ok |-> FALSE, result |-> blsig_err_verification_fail]

(***************************************************************************)
(* Flash programming, platforms/stm32f469disco/bootloader/bl_syscalls.c    *)
(***************************************************************************)
\* Sectors (indexes in flash_layout) covered by an area that starts at a
\* sector boundary and ends at one; the empty set when it does not
flash_sector_bitmap(addr, size) ==
  LET first == flash_get_sector_info(addr)
      last == flash_get_sector_info(addr + size - 1)
  IN IF /\ size # 0
        /\ first # 0
        /\ last # 0
        /\ flash_layout[first].base_address = addr
        /\ flash_layout[last].base_address + flash_layout[last].sector_size
             = addr + size
     THEN first..last ELSE {}

\* An erase that leaves the records at the end of the area in place
blsys_flash_erase_payload_only(fl, prot, addr, size) ==
  [ok |-> TRUE,
   fl |-> [a \in FlashAddrs |->
             IF a >= addr /\ a < addr + size - BL_FW_SECT_OVERHEAD
             THEN 255 ELSE fl[a]]]

\* [ok, fl]: erased sectors read as 0xFF; a write protected sector is not
\* erased and the HAL reports an error
blsys_flash_erase(fl, prot, addr, size) ==
  LET sectors == flash_sector_bitmap(addr, size)
  IN IF size # 0 /\ check_flash_area(addr, size) /\ sectors # {}
        /\ sectors \cap prot = {}
     THEN [ok |-> TRUE,
           fl |-> [a \in FlashAddrs |->
                     IF a >= addr /\ a < addr + size THEN 255 ELSE fl[a]]]
     ELSE [ok |-> FALSE, fl |-> fl]

\* [ok, prot]: sets or clears the write protection bits of the sectors
blsys_flash_write_protect(prot, addr, size, enable) ==
  LET sect_map == flash_sector_bitmap(addr, size)
  IN IF sect_map # {}
     THEN [ok |-> TRUE,
           prot |-> IF enable THEN prot \cup sect_map ELSE prot \ sect_map]
     ELSE [ok |-> FALSE, prot |-> prot]

\* Bytes programmed by the next HAL_FLASH_Program() of blsys_flash_write():
\* a 32-bit word at an aligned address with four bytes left, else one byte
ProgramUnit(w) ==
  IF (w.addr + w.pos) % 4 = 0 /\ Len(w.data) - w.pos >= 4 THEN 4 ELSE 1

\* Programming clears bits only
HAL_FLASH_Program(fl, addr, bytes) ==
  [a \in FlashAddrs |->
     IF a >= addr /\ a < addr + Len(bytes)
     THEN And8(fl[a], bytes[a - addr + 1]) ELSE fl[a]]

NoWrite == [addr |-> 0, data |-> <<>>, pos |-> 0]

\* A record placed in the last BL_ICR_SIZE bytes of the section
IcrAddr_last_bytes(sect_addr, sect_size) == sect_addr + sect_size - BL_ICR_SIZE

\* Address of the integrity check record of a section
IcrAddr(sect_addr, sect_size) == sect_addr + sect_size - BL_ICR_OFFSET_FROM_END

\* A record made with the CRC of the bytes one address further
bl_icr_create_shifted(fl, sect_addr, sect_size, pl_size, pl_ver) ==
  LET res == icr_struct_create_main(fl, sect_addr + 1, sect_size, pl_size,
                                    U32(pl_ver))
  IN IF bl_icr_check_sect_size(sect_size, pl_size) /\ res.ok
     THEN [ok |-> TRUE, addr |-> IcrAddr(sect_addr, sect_size),
           data |-> res.icr]
     ELSE [ok |-> FALSE, addr |-> 0, data |-> <<>>]

\* bl_icr_create() up to its call of blsys_flash_write(): [ok, addr, data]
bl_icr_create(fl, sect_addr, sect_size, pl_size, pl_ver) ==
  LET res == icr_struct_create_main(fl, sect_addr, sect_size, pl_size,
                                    U32(pl_ver))
  IN IF bl_icr_check_sect_size(sect_size, pl_size) /\ res.ok
     THEN [ok |-> TRUE, addr |-> IcrAddr(sect_addr, sect_size),
           data |-> res.icr]
     ELSE [ok |-> FALSE, addr |-> 0, data |-> <<>>]

(***************************************************************************)
(* Arguments and keys, core/bootloader.c                                   *)
(***************************************************************************)
\* Arguments accepted whatever address they name
validate_arguments_any_address(p_args, p_flags) ==
  \/ "bl_flag_no_args_crc_check" \in p_flags
  \/ bl_read_args(p_args)

validate_arguments(p_args, p_flags) ==
  /\ \/ "bl_flag_no_args_crc_check" \in p_flags
     \/ p_args.struct_crc =
          crc32_fast(ArgsBytes(p_args.loaded_from, p_args.startup_version),
                     ZERO32)
  /\ p_args.loaded_from \in {_bl_copy1_start, _bl_copy2_start}

\* A search that takes the first matching file and looks no further
find_file_first_match(f) == [found |-> f.present, fatal |-> FALSE]

\* find_file(UPGRADE_PATH, UPGRADE_FILES) on the mounted media device
find_file(f) ==
  [found |-> f.present, fatal |-> f.present /\ f.others > 0]

bl_pubkey_is_valid(key) == key.prefix = BL_PUBKEY_PREFIX

validate_pubkey_list(list) ==
  /\ Len(list) >= 1
  /\ bl_pubkey_is_end_record(list[Len(list)])
  /\ \A idx \in 1..(Len(list) - 1) : bl_pubkey_is_valid(list[idx])

\* A validation of the lists that does not look at the thresholds
validate_pubkey_set_lists_only(p_set) ==
  /\ validate_pubkey_list(p_set.vendor_pubkeys)
  /\ validate_pubkey_list(p_set.maintainer_pubkeys)

validate_pubkey_set(p_set) ==
  /\ validate_pubkey_list(p_set.vendor_pubkeys)
  /\ validate_pubkey_list(p_set.maintainer_pubkeys)
  /\ p_set.bootloader_sig_threshold >= 1
  /\ p_set.bootloader_sig_threshold <= Len(p_set.vendor_pubkeys) - 1
  /\ p_set.main_fw_sig_threshold >= 1
  /\ p_set.main_fw_sig_threshold <=
       Len(p_set.vendor_pubkeys) - 1 + Len(p_set.maintainer_pubkeys) - 1

(***************************************************************************)
(* Known answer tests, core/bl_kats.c                                      *)
(***************************************************************************)
\* Outcomes of do_sha256_kat() and do_ecdsa_secp256k1_kat(); run is FALSE
\* until bl_run_kats() is called
NoKats == [run |-> FALSE, sha256 |-> TRUE, ecdsa |-> TRUE]
KatOutcomes == [run : {TRUE}, sha256 : BOOLEAN, ecdsa : BOOLEAN]

bl_run_kats(outcome) == outcome.sha256 /\ outcome.ecdsa

(***************************************************************************)
(* Flash images and upgrade files the device is started with               *)
(***************************************************************************)
\* Release version n.0.0: the last two digits 99 mark a release
ReleaseVersion(n) == n * 100 + 99

\* Contents of a section: "blank" (erased), "v1"/"v2" (a payload with its
\* integrity check record), "v1bad"/"v2bad" (the same with a payload byte
\* altered after the record was made)
ImageKinds == {"blank", "v1", "v2", "v1bad", "v2bad"}

ImageVersion(kind) ==
  IF kind \in {"v1", "v1bad"} THEN ReleaseVersion(1) ELSE ReleaseVersion(2)

ImagePayload(kind) ==
  IF kind \in {"v1", "v1bad"} THEN <<17, 34>>
                              ELSE <<51, 68>>

\* The bytes of one section as a function of the address
SectionImage(kind, sect_addr, sect_size) ==
  LET erased == [a \in FlashAddrs |-> 255]
      pl == ImagePayload(kind)
      with_pl == [a \in FlashAddrs |->
                    IF a >= sect_addr /\ a < sect_addr + Len(pl)
                    THEN pl[a - sect_addr + 1] ELSE 255]
      icr == icr_struct_create_main(with_pl, sect_addr, sect_size, Len(pl),
                                    U32(ImageVersion(kind))).icr
      icr_addr == IcrAddr(sect_addr, sect_size)
      with_icr == [a \in FlashAddrs |->
                     IF a >= icr_addr /\ a < icr_addr + BL_ICR_SIZE
                     THEN icr[a - icr_addr + 1] ELSE with_pl[a]]
  IN IF kind = "blank" THEN erased
     ELSE IF kind \in {"v1", "v2"} THEN with_icr
     ELSE [with_icr EXCEPT ![sect_addr] = Xor8(@, 1)]

FlashImage(main_kind, copy1_kind, copy2_kind) ==
  LET m == SectionImage(main_kind, _main_firmware_start, _main_firmware_size)
      c1 == SectionImage(copy1_kind, _bl_copy1_start, _bl_sect_size)
      c2 == SectionImage(copy2_kind, _bl_copy2_start, _bl_sect_size)
  IN [a \in FlashAddrs |->
        IF a < _bl_copy1_start THEN m[a]
        ELSE IF a < _bl_copy2_start THEN c1[a] ELSE c2[a]]

\* Sections of upgrade files
PayloadSection(name, ver, pl, platform) ==
  [header |-> [hdr_ok |-> TRUE, name |-> name, pl_ver |-> ver,
               pl_size |-> Len(pl), pl_crc |-> crc32_fast(pl, ZERO32),
               platform |-> platform,
               base_addr |-> IF name = NAME_BOOT THEN _bl_image_base
                                                 ELSE _main_firmware_start,
               algorithm |-> ""],
   payload |-> pl]

SignatureSection(recs) ==
  [header |-> [hdr_ok |-> TRUE, name |-> BL_SIGNATURE_SECT_NAME, pl_ver |-> 1,
               pl_size |-> SIGNATURE_REC_SIZE * Len(recs),
               pl_crc |-> crc32_fast(SigPayloadBytes(recs), ZERO32),
               platform |-> "", base_addr |-> 0,
               algorithm |-> ALG_SECP256K1_SHA256],
   payload |-> recs]

\* A signature made with key k over the message of the file
Sig(k) == [fingerprint |-> k, by |-> k, over |-> "file"]
\* A signature made with key k over some other message
SigOther(k) == [fingerprint |-> k, by |-> k, over |-> "other"]

BootSect(n) == PayloadSection(NAME_BOOT, ReleaseVersion(n), <<1, 2, 3>>,
                              PLATFORM_ID)
MainSect(n) == PayloadSection(NAME_MAIN, ReleaseVersion(n), <<4, 5, 6>>,
                              PLATFORM_ID)

\* `others` counts the other files of the root directory whose names match
\* specter_upgrade*.bin
UpgradeFile(sects) ==
  [present |-> TRUE, sects |-> sects, trailing |-> 0, others |-> 0]
NoFile == [present |-> FALSE, sects |-> <<>>, trailing |-> 0, others |-> 0]

\* The payload bytes of a section differ from those its header was made for
Damaged(sect) == [sect EXCEPT !.payload[1] = Xor8(@, 1)]

File_full == UpgradeFile(<<BootSect(2), MainSect(2),
                           SignatureSection(<<Sig(1), Sig(2), Sig(3)>>)>>)
File_boot == UpgradeFile(<<BootSect(2), SignatureSection(<<Sig(1), Sig(2)>>)>>)
File_main == UpgradeFile(<<MainSect(2),
                           SignatureSection(<<Sig(1), Sig(2), Sig(3)>>)>>)
File_main_2sig ==
  UpgradeFile(<<MainSect(2), SignatureSection(<<Sig(1), Sig(2)>>)>>)
File_1sig == UpgradeFile(<<BootSect(2), MainSect(2),
                           SignatureSection(<<Sig(1), Sig(3)>>)>>)
File_badsig == UpgradeFile(<<BootSect(2), MainSect(2),
                             SignatureSection(<<Sig(1), SigOther(2), Sig(3)>>)>>)
File_same == UpgradeFile(<<BootSect(1), MainSect(1),
                           SignatureSection(<<Sig(1), Sig(2), Sig(3)>>)>>)
File_damaged == UpgradeFile(<<Damaged(BootSect(2)),
                              SignatureSection(<<Sig(1), Sig(2)>>)>>)
File_incompatible ==
  UpgradeFile(<<PayloadSection(NAME_BOOT, ReleaseVersion(2), <<1, 2, 3>>,
                               "other"),
                SignatureSection(<<Sig(1), Sig(2)>>)>>)
File_unsigned == UpgradeFile(<<BootSect(2)>>)
\* The Bootloader of the installed version alone
File_boot_same == UpgradeFile(<<BootSect(1), SignatureSection(<<Sig(1), Sig(2)>>)>>)


\* Files that fail the compatibility check or the check of the payload
File_bad_base ==
  UpgradeFile(<<[BootSect(2) EXCEPT !.header.base_addr = _bl_copy1_start],
                SignatureSection(<<Sig(1), Sig(2)>>)>>)
File_too_large ==
  UpgradeFile(<<PayloadSection(NAME_BOOT, ReleaseVersion(2),
                               Repeat(7, BootPlArea + 1), PLATFORM_ID),
                SignatureSection(<<Sig(1), Sig(2)>>)>>)
File_main_damaged ==
  UpgradeFile(<<BootSect(2), Damaged(MainSect(2)),
                SignatureSection(<<Sig(1), Sig(2), Sig(3)>>)>>)

\* Files that are not one Signature section and one or two Payload sections
File_trailing == [File_boot EXCEPT !.trailing = 5]
File_trailing_block == [File_boot EXCEPT !.trailing = SECT_HEADER_SIZE + 5]
File_two_sigs ==
  UpgradeFile(<<BootSect(2), SignatureSection(<<Sig(1)>>),
                SignatureSection(<<Sig(2)>>)>>)
File_two_boot ==
  UpgradeFile(<<BootSect(2), BootSect(2), SignatureSection(<<Sig(1), Sig(2)>>)>>)
File_only_sig == UpgradeFile(<<SignatureSection(<<Sig(1), Sig(2)>>)>>)
File_bad_header ==
  UpgradeFile(<<[BootSect(2) EXCEPT !.header.hdr_ok = FALSE],
                SignatureSection(<<Sig(1), Sig(2)>>)>>)
File_unknown_name ==
  UpgradeFile(<<PayloadSection("data", ReleaseVersion(2), <<1, 2, 3>>,
                               PLATFORM_ID),
                SignatureSection(<<Sig(1), Sig(2)>>)>>)
\* The file ends before the end of the payload of its last section
File_truncated ==
  UpgradeFile(<<SignatureSection(<<Sig(1), Sig(2)>>),
                [BootSect(2) EXCEPT !.payload = <<1, 2>>]>>)
File_sig_damaged ==
  UpgradeFile(<<BootSect(2),
                [SignatureSection(<<Sig(1), Sig(2)>>)
                   EXCEPT !.payload = <<Sig(1), Sig(3)>>]>>)
File_too_many_sigs ==
  UpgradeFile(<<BootSect(2),
                SignatureSection([k \in 1..33 |-> Sig(k)])>>)
\* The Signature section comes first
File_sig_first ==
  UpgradeFile(<<SignatureSection(<<Sig(1), Sig(2), Sig(3)>>), MainSect(2)>>)

MalformedFiles ==
  {File_trailing, File_trailing_block, File_two_sigs, File_two_boot,
   File_only_sig, File_bad_header, File_unknown_name, File_truncated,
   File_sig_damaged, File_too_many_sigs}
\* Release candidate 1 of version n.0.0
RcVersion(n) == n * 100 + 1

\* Versions found in the headers of upgrade files: none, older than and
\* equal to version 2, and a release candidate of version 3
FileVersions == {0, ReleaseVersion(1), ReleaseVersion(2), RcVersion(3)}
\* The version of a section of a file: <<v>>, or <<>> for no such section
SectVersions == {<<>>} \cup { <<v>> : v \in FileVersions }

\* A signed file with a Bootloader of version bv[1] and a Main Firmware of
\* version mv[1]
VersionedFile(bv, mv) ==
  UpgradeFile(
    (IF bv = <<>> THEN <<>>
     ELSE <<PayloadSection(NAME_BOOT, bv[1], <<1, 2, 3>>, PLATFORM_ID)>>)
    \o (IF mv = <<>> THEN <<>>
        ELSE <<PayloadSection(NAME_MAIN, mv[1], <<4, 5, 6>>, PLATFORM_ID)>>)
    \o <<SignatureSection(<<Sig(1), Sig(2), Sig(3)>>)>>)

VersionFiles ==
  { VersionedFile(bv, mv) : bv \in SectVersions, mv \in SectVersions }
    \ {VersionedFile(<<>>, <<>>)}

\* The device at power-up: [main, copy1, copy2, file]
StartWith(main_kind, copy1_kind, copy2_kind, f) ==
  [flash |-> FlashImage(main_kind, copy1_kind, copy2_kind), file |-> f]

\* Two upgrade files in the root directory of the media
File_full_and_other == [File_full EXCEPT !.others = 1]

\* Every pair of Bootloader copies with no upgrade file on the media, and
\* upgrade files on devices with one or two valid copies
StartSet ==
  { StartWith("v1", c1, c2, NoFile) : c1 \in ImageKinds, c2 \in ImageKinds }
  \cup { StartWith("v1", "v1", "blank", f) :
           f \in {File_full, File_boot, File_main, File_main_2sig, File_1sig,
                  File_badsig, File_same, File_damaged, File_incompatible,
                  File_unsigned, File_bad_base, File_too_large,
                  File_main_damaged, File_sig_first, File_full_and_other}
             \cup MalformedFiles }
  \cup { StartWith("v1", "v1", "v2", f) : f \in {File_full, File_same} }
  \cup { StartWith("v1bad", "blank", "v1", f) :
           f \in {File_same, File_main, File_boot_same} }

\* Devices with version 2 installed and the files of every pair of versions
VersionStartSet == { StartWith("v2", "v2", "blank", f) : f \in VersionFiles }

AllFlags == {{}, {"bl_flag_allow_rc_versions"}}

\* Files signed with the key of the maintainer alone
File_boot_maintainer == UpgradeFile(<<BootSect(2), SignatureSection(<<Sig(3)>>)>>)
File_main_maintainer == UpgradeFile(<<MainSect(2), SignatureSection(<<Sig(3)>>)>>)

\* The keys of the build with both thresholds at one
LowThresholdPubkeySet ==
  [BuildPubkeySet EXCEPT !.bootloader_sig_threshold = 1,
                         !.main_fw_sig_threshold = 1]

LowThresholdStartSet ==
  { StartWith("v1", "v1", "blank", f) :
      f \in {NoFile, File_boot_maintainer, File_main_maintainer} }

\* Key sets a build must not have: a list without the end record, a key
\* with a wrong prefix, a threshold of zero or above the number of keys
NoEndRecord(list) == SubSeq(list, 1, Len(list) - 1)
BadPrefix(list) == [list EXCEPT ![1].prefix = 2]

InvalidPubkeySets ==
  { [BuildPubkeySet EXCEPT !.vendor_pubkeys = NoEndRecord(@)],
    [BuildPubkeySet EXCEPT !.maintainer_pubkeys = NoEndRecord(@)],
    [BuildPubkeySet EXCEPT !.vendor_pubkeys = BadPrefix(@)],
    [BuildPubkeySet EXCEPT !.maintainer_pubkeys = BadPrefix(@)],
    [BuildPubkeySet EXCEPT !.vendor_pubkeys = <<>>],
    [BuildPubkeySet EXCEPT !.bootloader_sig_threshold = 0],
    [BuildPubkeySet EXCEPT !.bootloader_sig_threshold = Len(vendor_pubkey_list)],
    [BuildPubkeySet EXCEPT !.main_fw_sig_threshold = 0],
    [BuildPubkeySet EXCEPT !.main_fw_sig_threshold =
                             Len(vendor_pubkey_list) + Len(maintainer_pubkey_list) - 1] }

InvalidPubkeyStartSet ==
  { StartWith("v1", "v1", "blank", f) :
      f \in {NoFile, File_full, File_full_and_other} }

\* The host test bench: arguments made by the caller of bootloader_run()
TestBenchStartSet ==
  { StartWith("v1", "v1", "v1", f) :
      f \in {NoFile, File_boot, File_full_and_other} }

TestBenchFlags == {{}, {"bl_flag_no_args_crc_check"}}

TestBenchArgs ==
  UNION { { [loaded_from |-> a, startup_version |-> ZERO32,
             struct_crc |-> c] :
              c \in {ZERO32, crc32_fast(ArgsBytes(a, ZERO32), ZERO32)} } :
          a \in {0, _bl_copy1_start, _bl_copy2_start, _main_firmware_start} }

\* The mailbox before the Start-up code has written it
NoArgs == [loaded_from |-> 0, startup_version |-> ZERO32, struct_crc |-> ZERO32]

\* Words the Start-up code may find next to its version[] array
StackWords == {BL_VERSION_NA, U32(ReleaseVersion(1)), U32(ReleaseVersion(2))}

(***************************************************************************)
(* Progress reporting, core/bootloader.c and core/bl_util.c                *)
(***************************************************************************)
\* upgrading_stage_t, in the order of the enumeration
upgrading_stages ==
  << "stage_read_file", "stage_verify_file", "stage_unprotect_flash",
     "stage_erase_flash", "stage_write_flash", "stage_calc_hash",
     "stage_verify_sig", "stage_create_icr", "stage_protect_flash" >>

\* stage_info[].percent: input of each stage in the total of 100%
stage_info == << 2, 21, 1, 30, 36, 5, 2, 2, 1 >>

StageIdx(stage) ==
  CHOOSE idx \in 1..Len(upgrading_stages) : upgrading_stages[idx] = stage

RECURSIVE SumPercent(_)
\* Sum of the percents of the first n stages
SumPercent(n) == IF n = 0 THEN 0 ELSE SumPercent(n - 1) + stage_info[n]

bl_percent_x100(total, complete) ==
  IF complete >= total THEN 10000 ELSE (complete * 10000) \div total

(***************************************************************************)
(* bl_percent_x100() on full 32-bit arguments.  Numbers wider than a word  *)
(* are sequences of 16-bit digits, low digit first.                        *)
(***************************************************************************)
\* The two 16-bit digits of a 32-bit word
Digits16(w) == << w[1] + 256 * w[2], w[3] + 256 * w[4] >>

\* ds * k + carry for k < 2^15: one digit more than ds
RECURSIVE MulDigits(_, _, _)
MulDigits(ds, k, carry) ==
  IF ds = <<>> THEN << carry >>
  ELSE << (ds[1] * k + carry) % 65536 >>
         \o MulDigits(Tail(ds), k, (ds[1] * k + carry) \div 65536)

\* (uint64_t)w * k: the product modulo 2^64, four digits
Mul64(w, k) == SubSeq(MulDigits(Digits16(w) \o <<0, 0>>, k, 0), 1, 4)

\* w * k in uint32_t: the product modulo 2^32, widened to four digits
Mul32(w, k) == SubSeq(MulDigits(Digits16(w), k, 0), 1, 2) \o <<0, 0>>

\* Binary long division by the 32-bit d # 0 of the 16 bits of one digit,
\* from bit i down: st = <<high, low, q>> holds the two digits of the
\* remainder so far (below 2^33) and the bits of the quotient so far
RECURSIVE DivDigit(_, _, _, _)
DivDigit(digit, d, i, st) ==
  IF i < 0 THEN st
  ELSE LET lo2 == 2 * st[2] + ((digit \div (2 ^ i)) % 2)
           hi == 2 * st[1] + lo2 \div 65536
           lo == lo2 % 65536
           borrow == IF lo < d[1] THEN 1 ELSE 0
       IN IF hi > d[2] \/ (hi = d[2] /\ lo >= d[1])
          THEN DivDigit(digit, d, i - 1,
                        << hi - d[2] - borrow, lo - d[1] + 65536 * borrow,
                           2 * st[3] + 1 >>)
          ELSE DivDigit(digit, d, i - 1, << hi, lo, 2 * st[3] >>)

\* Long division of the 64-bit n from digit i down: r is the remainder and
\* q the low 32 bits of the quotient so far
RECURSIVE Div64Loop(_, _, _, _, _)
Div64Loop(n, d, i, r, q) ==
  IF i < 1 THEN q
  ELSE LET st == DivDigit(n[i], d, 15, << r[1], r[2], 0 >>)
       IN Div64Loop(n, d, i - 1, << st[1], st[2] >>, << st[3], q[1] >>)

\* (uint32_t)(n / d) for a 64-bit n and a 32-bit word d # 0, as a word
Div64To32(n, d) ==
  LET q == Div64Loop(n, Digits16(d), 4, <<0, 0>>, <<0, 0>>)
  IN << q[1] % 256, q[1] \div 256, q[2] % 256, q[2] \div 256 >>

\* A percent whose product is made in 32 bits
bl_percent_x100_u32_narrow(total, complete) ==
  IF Le32(total, complete) THEN U32(10000)
  ELSE Div64To32(Mul32(complete, 10000), total)

\* bl_percent_x100(total, complete) on two 32-bit words
bl_percent_x100_u32(total, complete) ==
  IF Le32(total, complete) THEN U32(10000)
  ELSE Div64To32(Mul64(complete, 10000), total)

\* The sizes come from validated headers, so main_size + boot_size does not
\* overflow
init_progress_context(md) ==
  [upgrade_boot |-> md.boot_section.loaded,
   upgrade_main |-> md.main_section.loaded,
   boot_percent_x100 |->
     IF md.boot_section.loaded /\ md.main_section.loaded
     THEN bl_percent_x100(md.main_section.header.pl_size
                            + md.boot_section.header.pl_size,
                          md.boot_section.header.pl_size)
     ELSE 5000]

\* A percent that leaves out the stages already complete
on_progress_update_internal_stage_only(ctx, stage, sub, op_total, op_complete) ==
  LET op_percent_x100 == bl_percent_x100(op_total, op_complete)
      stage_percent_x100 ==
        IF sub = "substage_boot"
        THEN (op_percent_x100 * ctx.boot_percent_x100) \div 10000
        ELSE IF sub = "substage_main"
        THEN ctx.boot_percent_x100 +
             (op_percent_x100 * (10000 - ctx.boot_percent_x100)) \div 10000
        ELSE op_percent_x100
  IN (stage_percent_x100 * stage_info[StageIdx(stage)]) \div 100

\* A percent in which the Main Firmware part of a stage starts from zero
on_progress_update_internal_main_from_zero(ctx, stage, sub, op_total, op_complete) ==
  LET op_percent_x100 == bl_percent_x100(op_total, op_complete)
      stage_percent_x100 ==
        IF sub = "substage_boot"
        THEN (op_percent_x100 * ctx.boot_percent_x100) \div 10000
        ELSE IF sub = "substage_main"
        THEN (op_percent_x100 * (10000 - ctx.boot_percent_x100)) \div 10000
        ELSE op_percent_x100
  IN SumPercent(StageIdx(stage) - 1) * 100
       + (stage_percent_x100 * stage_info[StageIdx(stage)]) \div 100

\* percent_x100 given to blsys_progress()
on_progress_update_internal(ctx, stage, sub, op_total, op_complete) ==
  LET op_percent_x100 == bl_percent_x100(op_total, op_complete)
      stage_percent_x100 ==
        IF sub = "substage_boot"
        THEN (op_percent_x100 * ctx.boot_percent_x100) \div 10000
        ELSE IF sub = "substage_main"
        THEN ctx.boot_percent_x100 +
             (op_percent_x100 * (10000 - ctx.boot_percent_x100)) \div 10000
        ELSE op_percent_x100
  IN SumPercent(StageIdx(stage) - 1) * 100
       + (stage_percent_x100 * stage_info[StageIdx(stage)]) \div 100

on_progress_update(ctx, stage, sub, op_total, op_complete) ==
  on_progress_update_internal(ctx, stage,
    IF ~ctx.upgrade_boot \/ ~ctx.upgrade_main THEN "substage_none" ELSE sub,
    op_total, op_complete)

\* One call of bl_report_progress(stage | sub, op_total, op_complete) with
\* the callback of the upgrade set: the arguments and the percent shown
bl_report_progress(md, stage, sub, op_total, op_complete) ==
  [stage |-> stage, substage |-> sub, op_total |-> op_total,
   op_complete |-> op_complete,
   percent_x100 |-> on_progress_update(init_progress_context(md), stage, sub,
                                       op_total, op_complete)]

\* blsys_progress(PROGRESS_CAPTION, stage_info[stage_read_file].name, 0U)
\* at the beginning of do_upgrade_with_file()
ProgressBegin ==
  [stage |-> "stage_read_file", substage |-> "substage_none", op_total |-> 0,
   op_complete |-> 0, percent_x100 |-> 0]

substage_flag(sub) == IF sub = "boot" THEN "substage_boot" ELSE "substage_main"

\* Reports of a loop over a payload of pl_size bytes in chunks of
\* IO_BUF_SIZE: one before the loop and one after each of the first n chunks
chunk_reports(md, stage, sub, pl_size, n) ==
  [k \in 1..(n + 1) |->
     bl_report_progress(md, stage, sub, pl_size,
                        Min((k - 1) * IO_BUF_SIZE, pl_size))]

\* Chunks of the payload the file holds completely
ChunksInFile(pl_size, pl) ==
  Cardinality({ k \in 1..pl_size :
                  /\ (k - 1) * IO_BUF_SIZE < pl_size
                  /\ Min(k * IO_BUF_SIZE, pl_size) <= Len(pl) })

\* Reports of blsect_validate_payload_from_file()
validate_payload_reports(md, sub, hdr, pl) ==
  IF hdr.pl_size # 0 /\ hdr.pl_size <= BL_PAYLOAD_SIZE_MAX
  THEN chunk_reports(md, "stage_verify_file", sub, hdr.pl_size,
                     ChunksInFile(hdr.pl_size, pl))
  ELSE <<>>

\* Reports of verify_payload_sections(): both sections are verified, the
\* Main Firmware also when the Bootloader has failed
verify_payload_reports(f, md) ==
  (IF md.boot_section.loaded
   THEN validate_payload_reports(md, "substage_boot", md.boot_section.header,
                                 f.sects[md.boot_section.sect_idx].payload)
   ELSE <<>>)
  \o (IF md.main_section.loaded
      THEN validate_payload_reports(md, "substage_main",
                                    md.main_section.header,
                                    f.sects[md.main_section.sect_idx].payload)
      ELSE <<>>)

\* Chunks blsect_hash_over_flash() reads from the flash
ChunksInFlash(pl_size, pl_addr) ==
  Cardinality({ k \in 1..pl_size :
                  /\ (k - 1) * IO_BUF_SIZE < pl_size
                  /\ check_flash_area(pl_addr,
                                      Min(k * IO_BUF_SIZE, pl_size)) })

hash_over_flash_reports(md, sub, hdr, pl_addr) ==
  IF blsect_is_payload(hdr)
  THEN chunk_reports(md, "stage_calc_hash", sub, hdr.pl_size,
                     ChunksInFlash(hdr.pl_size, pl_addr))
  ELSE <<>>

\* Reports of hash_flash_sections(): it returns when a section fails
hash_reports(fl, md, loaded_from) ==
  LET hb == blsect_hash_over_flash(fl, md.boot_section.header,
                                   get_inactive_bl_addr(loaded_from))
  IN (IF md.boot_section.loaded
      THEN hash_over_flash_reports(md, "substage_boot",
                                   md.boot_section.header,
                                   get_inactive_bl_addr(loaded_from))
      ELSE <<>>)
     \o (IF md.main_section.loaded /\ (md.boot_section.loaded => hb.ok)
         THEN hash_over_flash_reports(md, "substage_main",
                                      md.main_section.header,
                                      _main_firmware_start)
         ELSE <<>>)

\* Signature records blsig_verify_multisig_internal() gets through: all of
\* them, or those before the first record that fails verification
RecordsPassed(f, sig_recs, pubkey_set, message) ==
  Cardinality({ idx \in 1..Len(sig_recs) :
    \A j \in 1..idx :
      LET pk == find_pubkey(pubkey_set, sig_recs[j].fingerprint, 1)
      IN pk.found => verify_signature(f, sig_recs[j], message, pk.key) })

\* Reports of blsig_verify_multisig(): none when the arguments, the
\* algorithm or duplicating signatures stop it before the loop
multisig_reports(f, md, p_set, hash_buf) ==
  LET n_pl == (IF md.boot_section.loaded THEN 1 ELSE 0) +
              (IF md.main_section.loaded THEN 1 ELSE 0)
      m == blsect_make_signature_message(hash_buf)
      sig_recs == md.sig_payload
      pubkey_set == IF md.boot_section.loaded
                    THEN <<p_set.vendor_pubkeys>>
                    ELSE <<p_set.vendor_pubkeys, p_set.maintainer_pubkeys>>
  IN IF /\ md.sig_section.loaded /\ n_pl = Len(hash_buf) /\ m.ok
        /\ md.sig_section.header.algorithm = ALG_SECP256K1_SHA256
        /\ Len(sig_recs) # 0 /\ Len(m.msg) # 0
        /\ check_duplicating_signatures(sig_recs)
     THEN [k \in 1..(RecordsPassed(f, sig_recs, pubkey_set, m.msg) + 1) |->
             bl_report_progress(md, "stage_verify_sig", "substage_none",
                                Len(sig_recs), k - 1)]
     ELSE <<>>

(***************************************************************************)
(* State of the device                                                     *)
(***************************************************************************)
VARIABLES
  flash,             \* contents of the flash memory, by address
  wrp,               \* write protected sectors
  mailbox,           \* arguments left by the Start-up code in RAM
  file,              \* upgrade file on the removable media
  bl_pubkey_set,     \* the set of public keys of the build
  write_protection,  \* the build defines WRITE_PROTECTION
  flags,             \* flags given to bootloader_run()
  pc,                \* what the device executes
  substage,          \* section the stage works on: "boot" or "main"
  file_metadata,     \* bl_ctx.file_metadata
  version_check,     \* result of check_versions(), -1 before it
  wr,                \* the blsys_flash_write() in progress
  rm_bytes,          \* bytes of the section not yet copied
  hash_buf,          \* bl_ctx.hash_buf
  verify_res,        \* result of multisig verification
  kats,              \* outcome of the known answer tests of this run
  progress,          \* calls of blsys_progress() of this run, in order
  text,              \* status, alert caption or fatal error message
  n_blinks,          \* blinks of the error LED of the Start-up code
  erased,            \* sections erased since the Bootloader started
  icr_done,          \* sections whose record is completely in flash
  upg_from,          \* loaded_from of the run that erased, 0 if none
  attr_list,         \* attribute list given to the scanner under test
  attr_scan,         \* the scan of the attribute list in progress
  percent_test,      \* arguments and result of the percent under test
  sys_calls          \* system calls of the bootloader_run() under test

vars == << flash, wrp, mailbox, file, bl_pubkey_set, write_protection, flags,
           pc, substage, file_metadata, version_check, wr, rm_bytes, hash_buf,
           verify_res, kats, progress, text, n_blinks, erased, icr_done,
           upg_from, attr_list, attr_scan, percent_test, sys_calls >>

\* Variables of one run of the Bootloader
run_vars == << substage, file_metadata, version_check, wr, rm_bytes,
               hash_buf, verify_res, kats, progress >>
\* Variables no step of the device changes
config_vars == << file, bl_pubkey_set, write_protection, flags, attr_list,
                  attr_scan, percent_test, sys_calls >>
ghost_vars == << erased, icr_done, upg_from >>

\* No attribute list is being scanned
NoScan == [p_list |-> 0, reads |-> {}, attr_id |-> 0, res |-> <<>>]

\* No percent is being computed
NoPercent == [total |-> ZERO32, complete |-> ZERO32, res |-> <<>>]

Init ==
  /\ \/ /\ \E s \in StartSet : flash = s.flash /\ file = s.file
        /\ flags = {}
        /\ bl_pubkey_set = BuildPubkeySet
        /\ pc = "startup"
     \/ /\ \E s \in TestBenchStartSet : flash = s.flash /\ file = s.file
        /\ flags \in TestBenchFlags
        /\ bl_pubkey_set = BuildPubkeySet
        /\ pc = "testbench"
     \/ /\ \E s \in VersionStartSet : flash = s.flash /\ file = s.file
        /\ flags \in AllFlags
        /\ bl_pubkey_set = BuildPubkeySet
        /\ pc = "startup"
     \/ /\ \E s \in LowThresholdStartSet : flash = s.flash /\ file = s.file
        /\ flags = {}
        /\ bl_pubkey_set = LowThresholdPubkeySet
        /\ pc = "startup"
     \/ /\ \E s \in InvalidPubkeyStartSet : flash = s.flash /\ file = s.file
        /\ flags = {}
        /\ bl_pubkey_set \in InvalidPubkeySets
        /\ pc = "startup"
  /\ write_protection \in BOOLEAN
  /\ attr_list = <<>>
  /\ attr_scan = NoScan
  /\ percent_test = NoPercent
  /\ sys_calls = <<>>
  /\ wrp = IF write_protection THEN 1..Len(flash_layout) ELSE {}
  /\ mailbox = NoArgs
  /\ substage = "boot"
  /\ file_metadata = NoMetadata
  /\ version_check = -1
  /\ wr = NoWrite
  /\ rm_bytes = 0
  /\ hash_buf = <<>>
  /\ verify_res = 0
  /\ kats = NoKats
  /\ progress = <<>>
  /\ text = ""
  /\ n_blinks = 0
  /\ erased = {}
  /\ icr_done = {}
  /\ upg_from = 0

Sect(md, sub) == IF sub = "boot" THEN md.boot_section ELSE md.main_section

SectAddr(sub, loaded_from) ==
  IF sub = "boot" THEN get_inactive_bl_addr(loaded_from)
                  ELSE _main_firmware_start

SectSize(sub) == IF sub = "boot" THEN _bl_sect_size ELSE _main_firmware_size

\* A stage that takes the Main Firmware first
FirstSub_main_first(md) == IF md.main_section.loaded THEN "main" ELSE "boot"

FirstSub(md) == IF md.boot_section.loaded THEN "boot" ELSE "main"

\* Stages of do_upgrade_with_file() after the file has been verified
NextStage(stage) ==
  CASE stage = "unprotect" -> "erase"
    [] stage = "erase" -> "write"
    [] stage = "write" -> "hash"
    [] stage = "create_icr" -> IF write_protection THEN "protect" ELSE "report"
    [] stage = "protect" -> "report"

\* A stage that goes from the Bootloader to the Main Firmware whatever the
\* file holds
Advance_main_always(stage, sub, md) ==
  IF sub = "boot"
  THEN [pc |-> stage, substage |-> "main"]
  ELSE [pc |-> NextStage(stage), substage |-> FirstSub(md)]

\* The section processed after `sub` within a stage, or the next stage
Advance(stage, sub, md) ==
  IF sub = "boot" /\ md.main_section.loaded
  THEN [pc |-> stage, substage |-> "main"]
  ELSE [pc |-> NextStage(stage), substage |-> FirstSub(md)]

FatalText(stage) ==
  CASE stage = "unprotect" -> "Error while removing write protection"
    [] stage = "erase" -> "Error while erasing the flash memory"
    [] stage = "write" -> "Error copying firmware to the flash memory"
    [] stage = "create_icr" -> "Error creating integrity check records"
    [] stage = "protect" -> "Error while applying write protection"

\* The upgrading_stage_t of a step of the upgrade
ProgressStage(stage) ==
  CASE stage = "unprotect" -> "stage_unprotect_flash"
    [] stage = "erase" -> "stage_erase_flash"
    [] stage = "protect" -> "stage_protect_flash"

\* Reports around one erase or one change of the write protection: one
\* before the operation and, if it succeeds, one after it
operation_reports(md, stage, sub, ok) ==
  <<bl_report_progress(md, stage, substage_flag(sub), 1, 0)>>
  \o (IF ok THEN <<bl_report_progress(md, stage, substage_flag(sub), 1, 1)>>
      ELSE <<>>)

\* A handler that shows the message and starts the upgrade again
fatal_error_retry(message) == pc' = "read_metadata" /\ text' = message

fatal_error(message) == pc' = "fatal" /\ text' = message

(***************************************************************************)
(* Start-up code, platforms/stm32f469disco/startup/startup.c               *)
(***************************************************************************)
\* main(): select a copy, write the mailbox, start the copy
StartupSelect ==
  /\ pc = "startup"
  /\ \E stack_word \in StackWords :
       LET sel == select_bootloader(flash, stack_word)
       IN IF sel.found
          THEN /\ mailbox' = bl_write_args(
                               [loaded_from |-> sel.addr,
                                startup_version |-> startup_version_tag])
               /\ pc' = "bootloader"
               /\ n_blinks' = 0
          ELSE /\ mailbox' = mailbox
               /\ pc' = "startup_fatal"
               /\ n_blinks' = startup_error_no_bootloader
  /\ UNCHANGED << flash, wrp, text >>
  /\ UNCHANGED << run_vars, config_vars, ghost_vars >>

(***************************************************************************)
(* Bootloader, core/bootloader.c                                           *)
(***************************************************************************)
\* A run that goes on to the upgrade whatever bl_run_kats() returns
bootloader_run_initialized_kats_ignored(p_args, p_flags) ==
  \E outcome \in KatOutcomes :
    IF ~validate_arguments(p_args, p_flags)
    THEN pc' = "exit" /\ text' = "bl_status_err_arg" /\ kats' = kats
    ELSE IF ~validate_pubkey_set(bl_pubkey_set)
    THEN pc' = "exit" /\ text' = "bl_status_err_pubkeys" /\ kats' = kats
    ELSE IF find_file(file).fatal
    THEN fatal_error("More than one upgrade file found") /\ kats' = kats
    ELSE IF ~find_file(file).found
    THEN pc' = "exit" /\ text' = "bl_status_normal_exit" /\ kats' = kats
    ELSE pc' = "read_metadata" /\ text' = "" /\ kats' = outcome

\* bootloader_run_initialized() up to do_upgrade(): the arguments and the
\* keys are validated, the media is searched for an upgrade file and, with
\* a file found, the known answer tests are run
bootloader_run_initialized(p_args, p_flags) ==
  \E outcome \in KatOutcomes :
    IF ~validate_arguments(p_args, p_flags)
    THEN pc' = "exit" /\ text' = "bl_status_err_arg" /\ kats' = kats
    ELSE IF ~validate_pubkey_set(bl_pubkey_set)
    THEN pc' = "exit" /\ text' = "bl_status_err_pubkeys" /\ kats' = kats
    ELSE IF find_file(file).fatal
    THEN fatal_error("More than one upgrade file found") /\ kats' = kats
    ELSE IF ~find_file(file).found
    THEN pc' = "exit" /\ text' = "bl_status_normal_exit" /\ kats' = kats
    ELSE /\ kats' = outcome
         /\ IF bl_run_kats(outcome)
            THEN pc' = "read_metadata" /\ text' = ""
            ELSE pc' = "exit" /\ text' = "bl_status_err_internal"

\* The copy started by the Start-up code runs with the arguments of the
\* mailbox
BootloaderRun ==
  /\ pc = "bootloader"
  /\ bootloader_run_initialized(mailbox, flags)
  /\ erased' = {} /\ icr_done' = {} /\ upg_from' = 0
  /\ progress' = progress
  /\ UNCHANGED << flash, wrp, mailbox, n_blinks, substage, file_metadata,
                  version_check, wr, rm_bytes, hash_buf, verify_res >>
  /\ UNCHANGED config_vars

\* main() of the host test bench: bootloader_run() is called with an
\* argument structure made by the caller
TestBenchMain ==
  /\ pc = "testbench"
  /\ \E args \in TestBenchArgs :
       /\ mailbox' = args
       /\ bootloader_run_initialized(args, flags)
  /\ erased' = {} /\ icr_done' = {} /\ upg_from' = 0
  /\ progress' = progress
  /\ UNCHANGED << flash, wrp, n_blinks, substage, file_metadata,
                  version_check, wr, rm_bytes, hash_buf, verify_res >>
  /\ UNCHANGED config_vars

ReadMetadata ==
  /\ pc = "read_metadata"
  /\ LET res == read_metadata(file)
     IN IF res.ok
        THEN /\ file_metadata' = res.md
             /\ pc' = "check_compatibility"
             /\ text' = text
        ELSE /\ file_metadata' = file_metadata
             /\ fatal_error("Incorrect format of an upgrade file")
  /\ progress' = <<ProgressBegin>>
  /\ UNCHANGED << flash, wrp, mailbox, kats, n_blinks, substage, version_check, wr,
                  rm_bytes, hash_buf, verify_res >>
  /\ UNCHANGED << config_vars, ghost_vars >>

\* An upgrade that goes on whatever check_compatibility() returns
CheckCompatibility_ignored ==
  /\ pc = "check_compatibility"
  /\ pc' = "check_versions"
  /\ UNCHANGED << flash, wrp, mailbox, n_blinks, text >>
  /\ UNCHANGED << run_vars, config_vars, ghost_vars >>

CheckCompatibility ==
  /\ pc = "check_compatibility"
  /\ IF check_compatibility(file_metadata)
     THEN pc' = "check_versions" /\ text' = text
     ELSE fatal_error("Upgrade file is incompatible with the device")
  /\ UNCHANGED << flash, wrp, mailbox, n_blinks >>
  /\ UNCHANGED << run_vars, config_vars, ghost_vars >>

\* A version check after which the upgrade goes on with any result but same
CheckVersions_any_result_accepted ==
  /\ pc = "check_versions"
  /\ LET orig_ver == get_version_info(flash, mailbox.loaded_from)
         res == check_versions(file_metadata, orig_ver,
                               "bl_flag_allow_rc_versions" \in flags)
     IN /\ version_check' = res
        /\ IF /\ res = version_same
              /\ \/ ~file_metadata.main_section.loaded
                 \/ bl_icr_verify(flash, _main_firmware_start,
                                  _main_firmware_size).ok
           THEN pc' = "exit" /\ text' = "Version Check"
           ELSE pc' = "verify_payload" /\ text' = text
  /\ progress' = progress
  /\ UNCHANGED << flash, wrp, mailbox, kats, n_blinks, substage, file_metadata, wr,
                  rm_bytes, hash_buf, verify_res >>
  /\ UNCHANGED << config_vars, ghost_vars >>

\* A version check that skips the upgrade whenever the result is same
CheckVersions_same_always_skipped ==
  /\ pc = "check_versions"
  /\ LET orig_ver == get_version_info(flash, mailbox.loaded_from)
         res == check_versions(file_metadata, orig_ver,
                               "bl_flag_allow_rc_versions" \in flags)
     IN /\ version_check' = res
        /\ IF res = version_same
           THEN pc' = "exit" /\ text' = "Version Check"
           ELSE IF res # version_newer
           THEN pc' = "alert" /\ text' = "Version Check Failed"
           ELSE pc' = "verify_payload" /\ text' = text
  /\ progress' = progress
  /\ UNCHANGED << flash, wrp, mailbox, kats, n_blinks, substage, file_metadata, wr,
                  rm_bytes, hash_buf, verify_res >>
  /\ UNCHANGED << config_vars, ghost_vars >>

CheckVersions ==
  /\ pc = "check_versions"
  /\ LET orig_ver == get_version_info(flash, mailbox.loaded_from)
         res == check_versions(file_metadata, orig_ver,
                               "bl_flag_allow_rc_versions" \in flags)
     IN /\ version_check' = res
        /\ IF res = version_same
           THEN IF \/ ~file_metadata.main_section.loaded
                   \/ bl_icr_verify(flash, _main_firmware_start,
                                    _main_firmware_size).ok
                THEN pc' = "exit" /\ text' = "Version Check"
                ELSE pc' = "verify_payload" /\ text' = text
           ELSE IF res # version_newer
           THEN pc' = "alert" /\ text' = "Version Check Failed"
           ELSE pc' = "verify_payload" /\ text' = text
  /\ progress' = progress
  /\ UNCHANGED << flash, wrp, mailbox, kats, n_blinks, substage, file_metadata, wr,
                  rm_bytes, hash_buf, verify_res >>
  /\ UNCHANGED << config_vars, ghost_vars >>

\* An upgrade that goes on whatever verify_payload_sections() returns
VerifyPayloadSections_ignored ==
  /\ pc = "verify_payload"
  /\ pc' = "unprotect"
  /\ substage' = FirstSub(file_metadata)
  /\ progress' = progress
  /\ UNCHANGED << flash, wrp, mailbox, kats, n_blinks, file_metadata, version_check,
                  wr, rm_bytes, hash_buf, verify_res, text >>
  /\ UNCHANGED << config_vars, ghost_vars >>

VerifyPayloadSections ==
  /\ pc = "verify_payload"
  /\ IF verify_payload_sections(file, file_metadata)
     THEN /\ pc' = "unprotect"
          /\ substage' = FirstSub(file_metadata)
          /\ text' = text
     ELSE /\ substage' = substage
          /\ fatal_error("Upgrade file is corrupted")
  /\ progress' = progress \o verify_payload_reports(file, file_metadata)
  /\ UNCHANGED << flash, wrp, mailbox, kats, n_blinks, file_metadata, version_check,
                  wr, rm_bytes, hash_buf, verify_res >>
  /\ UNCHANGED << config_vars, ghost_vars >>

\* set_write_protection_state(): one section per step
SetWriteProtectionState ==
  /\ pc \in {"unprotect", "protect"}
  /\ LET res == blsys_flash_write_protect(wrp,
                  SectAddr(substage, mailbox.loaded_from), SectSize(substage),
                  pc = "protect")
         next == Advance(pc, substage, file_metadata)
     IN IF res.ok
        THEN /\ wrp' = res.prot
             /\ progress' = progress \o operation_reports(file_metadata,
                               ProgressStage(pc), substage, TRUE)
             /\ pc' = next.pc
             /\ substage' = next.substage
             /\ text' = text
        ELSE /\ wrp' = wrp
             /\ progress' = progress \o operation_reports(file_metadata,
                               ProgressStage(pc), substage, FALSE)
             /\ substage' = substage
             /\ fatal_error(FatalText(pc))
  /\ UNCHANGED << flash, mailbox, kats, n_blinks, file_metadata, version_check, wr,
                  rm_bytes, hash_buf, verify_res >>
  /\ UNCHANGED << config_vars, ghost_vars >>

\* erase_flash(): one section per step
EraseFlash ==
  /\ pc = "erase"
  /\ LET res == blsys_flash_erase(flash, wrp,
                  SectAddr(substage, mailbox.loaded_from), SectSize(substage))
         next == Advance(pc, substage, file_metadata)
     IN IF res.ok
        THEN /\ flash' = res.fl
             /\ progress' = progress \o operation_reports(file_metadata,
                               ProgressStage(pc), substage, TRUE)
             /\ pc' = next.pc
             /\ substage' = next.substage
             /\ text' = text
             /\ erased' = erased \cup {substage}
             /\ upg_from' = mailbox.loaded_from
        ELSE /\ flash' = flash
             /\ progress' = progress \o operation_reports(file_metadata,
                               ProgressStage(pc), substage, FALSE)
             /\ substage' = substage
             /\ fatal_error(FatalText(pc))
             /\ UNCHANGED << erased, upg_from >>
  /\ UNCHANGED << wrp, mailbox, kats, n_blinks, file_metadata, version_check, wr,
                  rm_bytes, hash_buf, verify_res, icr_done >>
  /\ UNCHANGED config_vars

\* The chunk copy_section() reads from the file when `rm` bytes remain:
\* [ok, w] with w the blsys_flash_write() it starts
ReadChunk(sect, flash_addr, rm) ==
  LET pl == file.sects[sect.sect_idx].payload
      done == sect.header.pl_size - rm
      copy_len == Min(rm, IO_BUF_SIZE)
  IN IF done + copy_len <= Len(pl) /\ check_flash_area(flash_addr + done, copy_len)
     THEN [ok |-> TRUE,
           w |-> [addr |-> flash_addr + done,
                  data |-> SubSeq(pl, done + 1, done + copy_len), pos |-> 0]]
     ELSE [ok |-> FALSE, w |-> NoWrite]

\* copy_section(): seek to the payload, read the first chunk and start
\* writing it
CopySection ==
  /\ pc = "write"
  /\ wr = NoWrite
  /\ LET sect == Sect(file_metadata, substage)
         chunk == ReadChunk(sect, SectAddr(substage, mailbox.loaded_from),
                            sect.header.pl_size)
     IN IF chunk.ok
        THEN /\ wr' = chunk.w
             /\ rm_bytes' = sect.header.pl_size
             /\ UNCHANGED << pc, text >>
        ELSE /\ UNCHANGED << wr, rm_bytes >>
             /\ fatal_error(FatalText(pc))
  /\ progress' = Append(progress,
       bl_report_progress(file_metadata, "stage_write_flash",
         substage_flag(substage),
         Sect(file_metadata, substage).header.pl_size, 0))
  /\ UNCHANGED << flash, wrp, mailbox, kats, n_blinks, substage, file_metadata,
                  version_check, hash_buf, verify_res >>
  /\ UNCHANGED << config_vars, ghost_vars >>

\* One HAL_FLASH_Program() of blsys_flash_write(); it fails on a write
\* protected sector
FlashProgram ==
  /\ pc \in {"write", "create_icr"}
  /\ wr # NoWrite
  /\ wr.pos < Len(wr.data)
  /\ LET n == ProgramUnit(wr)
         a == wr.addr + wr.pos
     IN IF flash_get_sector_info(a) \in wrp
        THEN /\ fatal_error(FatalText(pc))
             /\ UNCHANGED << flash, wr, icr_done >>
        ELSE /\ flash' = HAL_FLASH_Program(flash, a,
                           SubSeq(wr.data, wr.pos + 1, wr.pos + n))
             /\ wr' = [wr EXCEPT !.pos = @ + n]
             /\ icr_done' = IF pc = "create_icr" /\ wr.pos + n = Len(wr.data)
                            THEN icr_done \cup {substage} ELSE icr_done
             /\ UNCHANGED << pc, text >>
  /\ progress' = progress
  /\ UNCHANGED << wrp, mailbox, kats, n_blinks, substage, file_metadata,
                  version_check, rm_bytes, hash_buf, verify_res, erased,
                  upg_from >>
  /\ UNCHANGED config_vars

\* blsys_flash_write() compares the flash with the buffer and returns;
\* copy_section() goes on with the next chunk, create_icrs() with the next
\* section
FlashWriteReturn ==
  /\ pc \in {"write", "create_icr"}
  /\ wr # NoWrite
  /\ wr.pos = Len(wr.data)
  /\ LET ok == MemRead(flash, wr.addr, Len(wr.data)) = wr.data
         next == Advance(pc, substage, file_metadata)
         rm == rm_bytes - Len(wr.data)
         pl_size == Sect(file_metadata, substage).header.pl_size
         done == IF pc = "write"
                 THEN bl_report_progress(file_metadata, "stage_write_flash",
                        substage_flag(substage), pl_size, pl_size - rm)
                 ELSE bl_report_progress(file_metadata, "stage_create_icr",
                        substage_flag(substage), 1, 1)
         chunk == ReadChunk(Sect(file_metadata, substage),
                            SectAddr(substage, mailbox.loaded_from), rm)
     IN IF ~ok
        THEN /\ fatal_error(FatalText(pc))
             /\ UNCHANGED << wr, rm_bytes, substage, progress >>
        ELSE IF pc = "write" /\ rm > 0
        THEN /\ progress' = Append(progress, done)
             /\ IF chunk.ok
                THEN /\ wr' = chunk.w
                     /\ rm_bytes' = rm
                     /\ UNCHANGED << pc, text, substage >>
                ELSE /\ fatal_error(FatalText(pc))
                     /\ UNCHANGED << wr, rm_bytes, substage >>
        ELSE /\ wr' = NoWrite
             /\ progress' = Append(progress, done)
             /\ rm_bytes' = 0
             /\ pc' = next.pc
             /\ substage' = next.substage
             /\ text' = text
  /\ UNCHANGED << flash, wrp, mailbox, kats, n_blinks, file_metadata, version_check,
                  hash_buf, verify_res >>
  /\ UNCHANGED << config_vars, ghost_vars >>

HashFlashSections ==
  /\ pc = "hash"
  /\ LET res == hash_flash_sections(flash, file_metadata, mailbox.loaded_from)
     IN IF res.ok
        THEN hash_buf' = res.hash_buf /\ pc' = "verify_sig" /\ text' = text
        ELSE /\ hash_buf' = hash_buf
             /\ fatal_error("Error calculating hash of the firmware")
  /\ progress' = progress \o hash_reports(flash, file_metadata,
                                          mailbox.loaded_from)
  /\ UNCHANGED << flash, wrp, mailbox, kats, n_blinks, substage, file_metadata,
                  version_check, wr, rm_bytes, verify_res >>
  /\ UNCHANGED << config_vars, ghost_vars >>

VerifyMultisig ==
  /\ pc = "verify_sig"
  /\ LET res == verify_multisig(file, file_metadata, bl_pubkey_set, hash_buf)
     IN /\ verify_res' = res.result
        /\ IF res.ok
           THEN /\ pc' = "create_icr"
                /\ substage' = FirstSub(file_metadata)
                /\ text' = text
           ELSE /\ pc' = "alert"
                /\ substage' = substage
                /\ text' = "Signature Error"
  /\ progress' = progress \o multisig_reports(file, file_metadata,
                                              bl_pubkey_set, hash_buf)
  /\ UNCHANGED << flash, wrp, mailbox, kats, n_blinks, file_metadata, version_check,
                  wr, rm_bytes, hash_buf >>
  /\ UNCHANGED << config_vars, ghost_vars >>

\* create_icrs(): bl_icr_create() of one section builds the record and
\* starts writing it
CreateIcrs ==
  /\ pc = "create_icr"
  /\ wr = NoWrite
  /\ LET hdr == Sect(file_metadata, substage).header
         res == bl_icr_create(flash, SectAddr(substage, mailbox.loaded_from),
                              SectSize(substage), hdr.pl_size, hdr.pl_ver)
     IN IF res.ok /\ check_flash_area(res.addr, BL_ICR_SIZE)
        THEN /\ wr' = [addr |-> res.addr, data |-> res.data, pos |-> 0]
             /\ UNCHANGED << pc, text >>
        ELSE /\ wr' = wr
             /\ fatal_error(FatalText(pc))
  /\ progress' = Append(progress,
       bl_report_progress(file_metadata, "stage_create_icr",
                          substage_flag(substage), 1, 0))
  /\ UNCHANGED << flash, wrp, mailbox, kats, n_blinks, substage, file_metadata,
                  version_check, rm_bytes, hash_buf, verify_res >>
  /\ UNCHANGED << config_vars, ghost_vars >>

\* make_upgrade_report() and the "Upgrade Complete" alert, shown until power
\* is removed
UpgradeReport ==
  /\ pc = "report"
  /\ pc' = "complete"
  /\ text' = "Upgrade Complete"
  /\ UNCHANGED << flash, wrp, mailbox, n_blinks >>
  /\ UNCHANGED << run_vars, config_vars, ghost_vars >>

\* The HAL reports a failure of an erase, program or option byte operation
HalError ==
  /\ \/ pc \in {"unprotect", "erase", "protect"}
     \/ pc \in {"write", "create_icr"} /\ wr # NoWrite /\ wr.pos < Len(wr.data)
  /\ fatal_error(FatalText(pc))
  /\ progress' = IF pc \in {"unprotect", "erase", "protect"}
                 THEN progress \o operation_reports(file_metadata,
                                   ProgressStage(pc), substage, FALSE)
                 ELSE progress
  /\ UNCHANGED << flash, wrp, mailbox, n_blinks >>
  /\ UNCHANGED << substage, file_metadata, version_check, wr, rm_bytes,
                  hash_buf, verify_res, kats >>
  /\ UNCHANGED << config_vars, ghost_vars >>

\* Power is removed and applied again: the Start-up code runs
PowerCut ==
  /\ pc # "startup"
  /\ pc' = "startup"
  /\ mailbox' = NoArgs
  /\ substage' = "boot"
  /\ file_metadata' = NoMetadata
  /\ version_check' = -1
  /\ wr' = NoWrite
  /\ rm_bytes' = 0
  /\ hash_buf' = <<>>
  /\ verify_res' = 0
  /\ kats' = NoKats
  /\ text' = ""
  /\ n_blinks' = 0
  /\ progress' = <<>>
  /\ UNCHANGED << flash, wrp >>
  /\ UNCHANGED << config_vars, ghost_vars >>

Next ==
  \/ StartupSelect
  \/ BootloaderRun
  \/ TestBenchMain
  \/ ReadMetadata
  \/ CheckCompatibility
  \/ CheckVersions
  \/ VerifyPayloadSections
  \/ SetWriteProtectionState
  \/ EraseFlash
  \/ CopySection
  \/ FlashProgram
  \/ FlashWriteReturn
  \/ HashFlashSections
  \/ VerifyMultisig
  \/ CreateIcrs
  \/ UpgradeReport
  \/ HalError
  \/ PowerCut

Spec == Init /\ [][Next]_vars

(***************************************************************************)
(* blsig_verify_multisig() on its own: the device is at the verification   *)
(* of the signatures of a file with one Payload section, and the list of   *)
(* signature records and the key set are drawn from bounded sets           *)
(***************************************************************************)
\* Longest list of signature records drawn
MaxSigs == 3

\* Records of the keys 1..3 of the build, good and made over another
\* message, and a record of a key the device does not know
SigRecords ==
  { Sig(1), SigOther(1), Sig(2), Sig(3), SigOther(3), Sig(4) }

SigLists == UNION { [1..n -> SigRecords] : n \in 1..MaxSigs }

\* The key set of the build, and one with a key of the vendor also in the
\* list of the maintainers
OverlapPubkeySet ==
  [BuildPubkeySet EXCEPT !.maintainer_pubkeys =
     << [prefix |-> BL_PUBKEY_PREFIX, id |-> 2],
        [prefix |-> BL_PUBKEY_PREFIX, id |-> 3], BL_PUBKEY_END_OF_LIST >>]

SigPubkeySets == {BuildPubkeySet, OverlapPubkeySet}

\* A file with the Bootloader or the Main Firmware of version 2 and the
\* signature records `recs`
SigFile(sub, recs) ==
  UpgradeFile(<<IF sub = "boot" THEN BootSect(2) ELSE MainSect(2),
                SignatureSection(recs)>>)

\* The flash and the mailbox of a device with one copy of the Bootloader,
\* started from it
SigStartFlash == FlashImage("v1", "v1", "blank")
SigStartArgs ==
  bl_write_args([loaded_from |-> _bl_copy1_start,
                 startup_version |-> startup_version_tag])

\* The device started from copy 1 with file f, when do_upgrade_with_file()
\* has hashed the section it has written and calls verify_multisig()
AtVerifyMultisig(f, sub, p_set, wp) ==
  LET md == read_metadata(f).md
      args == SigStartArgs
      addr == SectAddr(sub, _bl_copy1_start)
      sect == Sect(md, sub)
      pl == f.sects[sect.sect_idx].payload
      all == IF wp THEN 1..Len(flash_layout) ELSE {}
      prot == blsys_flash_write_protect(all, addr, SectSize(sub), FALSE).prot
      fl == HAL_FLASH_Program(
              blsys_flash_erase(SigStartFlash, prot, addr,
                                SectSize(sub)).fl,
              addr, pl)
  IN /\ file = f
     /\ file_metadata = md
     /\ bl_pubkey_set = p_set
     /\ write_protection = wp
     /\ attr_list = <<>>
     /\ attr_scan = NoScan
     /\ percent_test = NoPercent
     /\ sys_calls = <<>>
     /\ wrp = prot
     /\ flash = fl
     /\ mailbox = args
     /\ flags = {}
     /\ kats = [run |-> TRUE, sha256 |-> TRUE, ecdsa |-> TRUE]
     /\ substage = sub
     /\ version_check = version_newer
     /\ wr = NoWrite
     /\ rm_bytes = 0
     /\ hash_buf = hash_flash_sections(fl, md, args.loaded_from).hash_buf
     /\ verify_res = 0
     /\ progress =
          <<ProgressBegin>>
          \o verify_payload_reports(f, md)
          \o operation_reports(md, "stage_unprotect_flash", sub, TRUE)
          \o operation_reports(md, "stage_erase_flash", sub, TRUE)
          \o chunk_reports(md, "stage_write_flash", substage_flag(sub),
                           sect.header.pl_size,
                           ChunksInFile(sect.header.pl_size, pl))
          \o hash_reports(fl, md, args.loaded_from)
     /\ pc = "verify_sig"
     /\ text = ""
     /\ n_blinks = 0
     /\ erased = {sub}
     /\ icr_done = {}
     /\ upg_from = args.loaded_from

SigInit ==
  \E sub \in {"boot", "main"}, recs \in SigLists, p_set \in SigPubkeySets,
     wp \in BOOLEAN :
    AtVerifyMultisig(SigFile(sub, recs), sub, p_set, wp)

SigNext == VerifyMultisig

SigSpec == SigInit /\ [][SigNext]_vars

(***************************************************************************)
(* bl_icr_create() and bl_icr_verify() on their own, as in                 *)
(* test/test_bl_integrity_check.cpp: a section of the flash memory holds a *)
(* payload followed by erased bytes, a record is created for it and a byte *)
(* of the section is changed                                               *)
(***************************************************************************)
\* Bytes the payload area of the section is filled with
IcrTestFills == {0, 24, 255}

\* Versions given to bl_icr_create(): none, 1.0.0 and 1.22.134-rc5
IcrTestVersions == {0, ReleaseVersion(1), 102213405}

\* Bits flipped in the byte that is changed
IcrTestMasks == {1, 128, 255}

\* The section of the test: the second Bootloader slot or the Main Firmware
IcrTestAddr == SectAddr(substage, _bl_copy1_start)
IcrTestSize == SectSize(substage)

\* Payload sizes given to bl_icr_create(): up to one more than fits
IcrTestPlSizes == 1..(IcrTestSize - BL_FW_SECT_OVERHEAD + 1)

\* The flash memory of the test: the payload area of the section holds the
\* fill byte, every other byte is erased
IcrTestFlash(fill) ==
  [a \in FlashAddrs |->
     IF a >= IcrTestAddr /\ a < IcrTestAddr + IcrTestSize - BL_FW_SECT_OVERHEAD
     THEN fill ELSE 255]

\* A record that describes an auxiliary section (bl_icr_sect_t aux_sect)
\* next to the payload of pl_size bytes at main_addr
IcrWithAux(fl, main_addr, pl_size, pl_ver) ==
  LET body == BL_ICR_MAGIC \o BL_ICR_STRUCT_REV \o U32(pl_ver) \o U32(pl_size)
                \o crc32_fast(MemRead(fl, main_addr, pl_size), ZERO32)
                \o U32(1) \o crc32_fast(<<fl[main_addr + pl_size]>>, ZERO32)
  IN body \o crc32_fast(body, ZERO32)

\* Payload sizes of a record that bl_icr_create() would not make: one byte
\* too many, the size of the section, and one byte more than the section
IcrTestOversizes ==
  {IcrTestSize - BL_FW_SECT_OVERHEAD + 1, IcrTestSize, IcrTestSize + 1}

\* A record with a valid CRC of its own that names a payload of pl_size
\* bytes (bl_icr_t with main_sect.pl_size = pl_size, aux_sect zeroed)
IcrWithSize(pl_size, pl_ver) ==
  LET body == BL_ICR_MAGIC \o BL_ICR_STRUCT_REV \o U32(pl_ver) \o U32(pl_size)
                \o ZERO32 \o ZERO32 \o ZERO32
  IN body \o crc32_fast(body, ZERO32)

\* The section holds no record yet, or a record that something else than
\* bl_icr_create() has programmed: one with an auxiliary section, or one with
\* a payload size the section has no room for
IcrInit ==
  /\ substage \in {"boot", "main"}
  /\ \E fill \in IcrTestFills :
       \/ /\ flash = IcrTestFlash(fill)
          /\ pc = "icr_test"
       \/ /\ \E pl_ver \in IcrTestVersions :
               flash = HAL_FLASH_Program(IcrTestFlash(fill),
                         IcrAddr(IcrTestAddr, IcrTestSize),
                         IcrWithAux(IcrTestFlash(fill), IcrTestAddr, 1, pl_ver))
          /\ pc = "icr_found"
       \/ /\ \E pl_size \in IcrTestOversizes :
               flash = HAL_FLASH_Program(IcrTestFlash(fill),
                         IcrAddr(IcrTestAddr, IcrTestSize),
                         IcrWithSize(pl_size, ReleaseVersion(1)))
          /\ pc = "icr_oversized"
  /\ file = NoFile
  /\ flags = {}
  /\ bl_pubkey_set = BuildPubkeySet
  /\ write_protection = FALSE
  /\ attr_list = <<>>
  /\ attr_scan = NoScan
  /\ percent_test = NoPercent
  /\ sys_calls = <<>>
  /\ wrp = {}
  /\ mailbox = NoArgs
  /\ file_metadata = NoMetadata
  /\ version_check = -1
  /\ wr = NoWrite
  /\ rm_bytes = 0
  /\ hash_buf = <<>>
  /\ verify_res = 0
  /\ kats = NoKats
  /\ progress = <<>>
  /\ text = ""
  /\ n_blinks = 0
  /\ erased = {}
  /\ icr_done = {}
  /\ upg_from = 0

\* bl_icr_create(flash.base(), flash.size(), pl_size, pl_ver)
IcrTestCreate(pl_size, pl_ver) ==
  /\ pc = "icr_test"
  /\ LET res == bl_icr_create(flash, IcrTestAddr, IcrTestSize, pl_size, pl_ver)
     IN IF res.ok /\ check_flash_area(res.addr, BL_ICR_SIZE)
        THEN /\ flash' = HAL_FLASH_Program(flash, res.addr, res.data)
             /\ pc' = "icr_created"
        ELSE /\ flash' = flash
             /\ pc' = "icr_rejected"
  /\ UNCHANGED << wrp, mailbox, text, n_blinks >>
  /\ UNCHANGED << run_vars, config_vars, ghost_vars >>

\* flash[i] ^= mask
IcrTestCorrupt ==
  /\ pc = "icr_created"
  /\ \E a \in IcrTestAddr..(IcrTestAddr + IcrTestSize - 1) :
       \E mask \in IcrTestMasks :
          flash' = [flash EXCEPT ![a] = Xor8(@, mask)]
  /\ pc' = "icr_corrupted"
  /\ UNCHANGED << wrp, mailbox, text, n_blinks >>
  /\ UNCHANGED << run_vars, config_vars, ghost_vars >>

IcrNext ==
  \/ \E pl_size \in IcrTestPlSizes : \E pl_ver \in IcrTestVersions :
        IcrTestCreate(pl_size, pl_ver)
  \/ IcrTestCorrupt

IcrSpec == IcrInit /\ [][IcrNext]_vars

(***************************************************************************)
(* bl_vcr_create() and bl_vcr_get_version() on their own, as in the test   *)
(* case "Version check record: high level" of                              *)
(* test/test_bl_integrity_check.cpp: version check records are created in  *)
(* an erased section and bytes of them are changed                         *)
(***************************************************************************)
\* Versions given to bl_vcr_create()
VcrTestVersions == {ReleaseVersion(1), ReleaseVersion(2), 102213405}

\* Offsets of the bytes of a record the test changes: in the magic string,
\* the version, the reserved word and the CRC
VcrTestOffsets == {0, 20, 24, 31}

VcrTestPlaceAddr(place) ==
  IF place = bl_vcr_starting THEN IcrTestAddr
  ELSE IcrTestAddr + IcrTestSize - BL_VCR_OFFSET_FROM_END

VcrInit ==
  /\ substage \in {"boot", "main"}
  /\ flash = [a \in FlashAddrs |-> 255]
  /\ pc = "vcr_test"
  /\ file = NoFile
  /\ flags = {}
  /\ bl_pubkey_set = BuildPubkeySet
  /\ write_protection = FALSE
  /\ attr_list = <<>>
  /\ attr_scan = NoScan
  /\ percent_test = NoPercent
  /\ sys_calls = <<>>
  /\ wrp = {}
  /\ mailbox = NoArgs
  /\ file_metadata = NoMetadata
  /\ version_check = -1
  /\ wr = NoWrite
  /\ rm_bytes = 0
  /\ hash_buf = <<>>
  /\ verify_res = 0
  /\ kats = NoKats
  /\ progress = <<>>
  /\ text = ""
  /\ n_blinks = 0
  /\ erased = {}
  /\ icr_done = {}
  /\ upg_from = 0

\* bl_vcr_create(flash.base(), flash.size(), pl_ver, place), once for a
\* placement
VcrTestCreate(pl_ver, place) ==
  /\ pc = "vcr_test"
  /\ MemRead(flash, VcrTestPlaceAddr(place), BL_VCR_SIZE) = Repeat(255, BL_VCR_SIZE)
  /\ LET res == bl_vcr_create(IcrTestAddr, IcrTestSize, pl_ver, place)
     IN /\ res.ok /\ check_flash_area(res.addr, BL_VCR_SIZE)
        /\ flash' = HAL_FLASH_Program(flash, res.addr, res.data)
  /\ UNCHANGED << pc, wrp, mailbox, text, n_blinks >>
  /\ UNCHANGED << run_vars, config_vars, ghost_vars >>

\* flash[i] ^= 1 on a byte of one of the two places
VcrTestCorrupt ==
  /\ pc = "vcr_test"
  /\ \E place \in {bl_vcr_starting, bl_vcr_ending} :
       \E off \in VcrTestOffsets :
          flash' = [flash EXCEPT ![VcrTestPlaceAddr(place) + off] = Xor8(@, 1)]
  /\ UNCHANGED << pc, wrp, mailbox, text, n_blinks >>
  /\ UNCHANGED << run_vars, config_vars, ghost_vars >>

VcrNext ==
  \/ \E pl_ver \in VcrTestVersions :
        \E place \in {bl_vcr_starting, bl_vcr_ending} :
           VcrTestCreate(pl_ver, place)
  \/ VcrTestCorrupt

VcrSpec == VcrInit /\ [][VcrNext]_vars

(***************************************************************************)
(* Attribute lists of section headers, core/bl_section.c                   *)
(*                                                                         *)
(* A scan is [p_list, reads, attr_id, res]: p_list - attr_list, the        *)
(* offsets read from the buffer so far, the attribute looked up and the    *)
(* value returned, <<>> while the loop runs.                               *)
(***************************************************************************)
\* Model bound for sizeof(attr_list), 216 in the program
MaxAttrList == 4
\* Byte values of the lists: the end mark, the keys of bl_attr_t and sizes
AttrBytes == 0..3
\* bl_attr_algorithm, bl_attr_base_addr, bl_attr_entry_point
AttrIds == {1, 2, 3}
\* attr_list, buf_size: buf_size is the length of the sequence
AttrLists == UNION { [1..n -> AttrBytes] : n \in 0..MaxAttrList }

\* Offsets bl_memveq() reads from p on: up to the first differing byte
RECURSIVE bl_memveq_reads(_, _, _)
bl_memveq_reads(buf, p, value) ==
  IF p >= Len(buf) THEN {}
  ELSE IF buf[p + 1] # value THEN {p}
  ELSE {p} \cup bl_memveq_reads(buf, p + 1, value)

bl_memveq(buf, p, value) ==
  /\ p < Len(buf)
  /\ \A i \in p..(Len(buf) - 1) : buf[i + 1] = value

\* One pass of the loop of validate_attributes(), from the loop test on
validate_attributes(buf, s) ==
  LET p_end == Len(buf)
      p0 == s.p_list
      p1 == p0 + 1
      p2 == p1 + 1
      r1 == s.reads \cup {p0}
      r2 == r1 \cup {p1}
  IN IF ~(Len(buf) >= 2) THEN [s EXCEPT !.res = <<FALSE>>]
     ELSE IF ~(p0 < p_end) THEN [s EXCEPT !.res = <<TRUE>>]
     ELSE IF buf[p0 + 1] # 0
     THEN IF p1 + 1 > p_end
          THEN [s EXCEPT !.p_list = p1, !.reads = r1, !.res = <<FALSE>>]
          ELSE IF p2 + buf[p1 + 1] > p_end
          THEN [s EXCEPT !.p_list = p2, !.reads = r2, !.res = <<FALSE>>]
          ELSE [s EXCEPT !.p_list = p2 + buf[p1 + 1], !.reads = r2]
     ELSE IF p1 < p_end
          THEN [s EXCEPT !.p_list = p1,
                         !.reads = r1 \cup bl_memveq_reads(buf, p1, 0),
                         !.res = <<bl_memveq(buf, p1, 0)>>]
          ELSE [s EXCEPT !.p_list = p1, !.reads = r1]

\* A lookup that reads the size byte without looking for its space; past
\* the buffer it reads a zero
find_attribute_size_unchecked(buf, s, attr_id) ==
  LET p_end == Len(buf)
      p0 == s.p_list
      p1 == p0 + 1
      p2 == p1 + 1
      r1 == s.reads \cup {p0}
      r2 == r1 \cup {p1}
      size == IF p1 < p_end THEN buf[p1 + 1] ELSE 0
  IN IF ~(Len(buf) > 0) THEN [s EXCEPT !.res = <<-1>>]
     ELSE IF ~(p0 < p_end) THEN [s EXCEPT !.res = <<-1>>]
     ELSE IF buf[p0 + 1] # 0
     THEN IF p2 + size > p_end
          THEN [s EXCEPT !.p_list = p2, !.reads = r2, !.res = <<-1>>]
          ELSE IF buf[p0 + 1] = attr_id
          THEN [s EXCEPT !.p_list = p2, !.reads = r2, !.res = <<p2 - 1>>]
          ELSE [s EXCEPT !.p_list = p2 + size, !.reads = r2]
     ELSE [s EXCEPT !.p_list = p1, !.reads = r1, !.res = <<-1>>]

\* One pass of the loop of find_attribute(), from the loop test on
find_attribute(buf, s, attr_id) ==
  LET p_end == Len(buf)
      p0 == s.p_list
      p1 == p0 + 1
      p2 == p1 + 1
      r1 == s.reads \cup {p0}
      r2 == r1 \cup {p1}
  IN IF ~(Len(buf) > 0) THEN [s EXCEPT !.res = <<-1>>]
     ELSE IF ~(p0 < p_end) THEN [s EXCEPT !.res = <<-1>>]
     ELSE IF buf[p0 + 1] # 0
     THEN IF p1 + 1 > p_end
          THEN [s EXCEPT !.p_list = p1, !.reads = r1, !.res = <<-1>>]
          ELSE IF p2 + buf[p1 + 1] > p_end
          THEN [s EXCEPT !.p_list = p2, !.reads = r2, !.res = <<-1>>]
          ELSE IF buf[p0 + 1] = attr_id
          THEN [s EXCEPT !.p_list = p2, !.reads = r2, !.res = <<p2 - 1>>]
          ELSE [s EXCEPT !.p_list = p2 + buf[p1 + 1], !.reads = r2]
     ELSE [s EXCEPT !.p_list = p1, !.reads = r1, !.res = <<-1>>]

(***************************************************************************)
(* The attribute scanner on its own, as test/test_bl_section.cpp calls it: *)
(* a list is validated or searched, and a valid list is searched.          *)
(***************************************************************************)
AttrInit ==
  /\ attr_list \in AttrLists
  /\ \/ pc = "attr_validate" /\ attr_scan = NoScan
     \/ /\ pc = "attr_find"
        /\ \E attr_id \in AttrIds :
              attr_scan = [NoScan EXCEPT !.attr_id = attr_id]
  /\ percent_test = NoPercent
  /\ sys_calls = <<>>
  /\ substage = "boot"
  /\ flash = [a \in FlashAddrs |-> 255]
  /\ file = NoFile
  /\ flags = {}
  /\ bl_pubkey_set = BuildPubkeySet
  /\ write_protection = TRUE
  /\ wrp = {}
  /\ mailbox = NoArgs
  /\ file_metadata = NoMetadata
  /\ version_check = -1
  /\ wr = NoWrite
  /\ rm_bytes = 0
  /\ hash_buf = <<>>
  /\ verify_res = 0
  /\ kats = NoKats
  /\ progress = <<>>
  /\ text = ""
  /\ n_blinks = 0
  /\ erased = {}
  /\ icr_done = {}
  /\ upg_from = 0

AttrUnchanged ==
  UNCHANGED << flash, wrp, mailbox, file, bl_pubkey_set, write_protection,
               flags, text, n_blinks, attr_list, percent_test, sys_calls,
               run_vars, ghost_vars >>

\* validate_attributes(attr_list, buf_size), pass by pass
AttrValidateStep ==
  /\ pc = "attr_validate"
  /\ attr_scan' = validate_attributes(attr_list, attr_scan)
  /\ pc' = IF attr_scan'.res = <<>> THEN "attr_validate"
           ELSE IF attr_scan'.res[1] THEN "attr_valid" ELSE "attr_invalid"
  /\ AttrUnchanged

\* blsect_get_attr_uint() or blsect_get_attr_str() on a validated header
AttrGetAttr(attr_id) ==
  /\ pc = "attr_valid"
  /\ attr_scan' = [NoScan EXCEPT !.attr_id = attr_id]
  /\ pc' = "attr_find"
  /\ AttrUnchanged

\* find_attribute(attr_list, buf_size, attr_id), pass by pass
AttrFindStep ==
  /\ pc = "attr_find"
  /\ attr_scan' = find_attribute(attr_list, attr_scan, attr_scan.attr_id)
  /\ pc' = IF attr_scan'.res = <<>> THEN "attr_find"
           ELSE IF attr_scan'.res[1] >= 0 THEN "attr_found"
           ELSE "attr_not_found"
  /\ AttrUnchanged

AttrNext ==
  \/ AttrValidateStep
  \/ \E attr_id \in AttrIds : AttrGetAttr(attr_id)
  \/ AttrFindStep

AttrSpec == AttrInit /\ [][AttrNext]_vars

(***************************************************************************)
(* bl_percent_x100() on its own: the arguments are drawn from values at the *)
(* limits of 16, 31 and 32 bits and around the first product above 2^32.   *)
(***************************************************************************)
PercentTestValues ==
  { U32(0), U32(1), U32(2), U32(3), U32(7), U32(9999), U32(10000),
    U32(10001), U32(65535), U32(65536), U32(429496), U32(429497),
    U32(2147483647), <<0, 0, 0, 128>>, <<254, 255, 255, 255>>,
    <<255, 255, 255, 255>> }

PercentInit ==
  /\ \E total \in PercentTestValues : \E complete \in PercentTestValues :
        percent_test = [total |-> total, complete |-> complete, res |-> <<>>]
  /\ pc = "percent_test"
  /\ sys_calls = <<>>
  /\ attr_list = <<>>
  /\ attr_scan = NoScan
  /\ substage = "boot"
  /\ flash = [a \in FlashAddrs |-> 255]
  /\ file = NoFile
  /\ flags = {}
  /\ bl_pubkey_set = BuildPubkeySet
  /\ write_protection = TRUE
  /\ wrp = {}
  /\ mailbox = NoArgs
  /\ file_metadata = NoMetadata
  /\ version_check = -1
  /\ wr = NoWrite
  /\ rm_bytes = 0
  /\ hash_buf = <<>>
  /\ verify_res = 0
  /\ kats = NoKats
  /\ progress = <<>>
  /\ text = ""
  /\ n_blinks = 0
  /\ erased = {}
  /\ icr_done = {}
  /\ upg_from = 0

\* op_percent_x100 = bl_percent_x100(op_total, op_complete)
PercentTestCall ==
  /\ pc = "percent_test"
  /\ percent_test' =
       [percent_test EXCEPT
          !.res = <<bl_percent_x100_u32(percent_test.total,
                                        percent_test.complete)>>]
  /\ pc' = "percent_done"
  /\ UNCHANGED << flash, wrp, mailbox, file, bl_pubkey_set, write_protection,
                  flags, text, n_blinks, attr_list, attr_scan, sys_calls,
                  run_vars, ghost_vars >>

PercentNext == PercentTestCall

PercentSpec == PercentInit /\ [][PercentNext]_vars

(***************************************************************************)
(* bootloader_run() as the sequence of its system calls: sys_calls is the  *)
(* log of the calls made since bootloader_run() was entered.  The calls of *)
(* bootloader_run_initialized() are any calls of core/bl_syscalls.h, in    *)
(* any order.                                                              *)
(***************************************************************************)
\* Longest sequence of calls of bootloader_run_initialized() followed
MaxCalls == 3

\* Calls that return to the Bootloader
SysCallNames ==
  { "blsys_flash_map_get_items", "blsys_media_umount", "blsys_media_mount",
    "blsys_fread", "blsys_flash_erase", "blsys_flash_write",
    "blsys_flash_write_protect", "blsys_progress", "blsys_alert" }

\* Calls that do not return: blsys_fatal_error() and blsys_alert() with
\* BL_FOREVER
SysCallsNoReturn == { "blsys_fatal_error", "blsys_alert_forever" }

\* The end of a bootloader_run() that releases the system before the media
bootloader_run_return_deinit_first(log) ==
  log \o << "blsys_deinit", "blsys_media_umount" >>

\* The calls of bootloader_run() after bootloader_run_initialized() returns
bootloader_run_return(log) ==
  log \o << "blsys_media_umount", "blsys_deinit" >>

RunInit ==
  /\ pc = "run"
  /\ sys_calls = <<>>
  /\ attr_list = <<>>
  /\ attr_scan = NoScan
  /\ percent_test = NoPercent
  /\ substage = "boot"
  /\ flash = [a \in FlashAddrs |-> 255]
  /\ file = NoFile
  /\ flags = {}
  /\ bl_pubkey_set = BuildPubkeySet
  /\ write_protection = TRUE
  /\ wrp = {}
  /\ mailbox = NoArgs
  /\ file_metadata = NoMetadata
  /\ version_check = -1
  /\ wr = NoWrite
  /\ rm_bytes = 0
  /\ hash_buf = <<>>
  /\ verify_res = 0
  /\ kats = NoKats
  /\ progress = <<>>
  /\ text = ""
  /\ n_blinks = 0
  /\ erased = {}
  /\ icr_done = {}
  /\ upg_from = 0

RunUnchanged ==
  UNCHANGED << flash, wrp, mailbox, file, bl_pubkey_set, write_protection,
               flags, n_blinks, attr_list, attr_scan, percent_test, run_vars,
               ghost_vars >>

\* if (blsys_init()) ... return bl_status_err_platform
RunSysInit ==
  /\ pc = "run"
  /\ sys_calls' = Append(sys_calls, "blsys_init")
  /\ \E ok \in BOOLEAN :
       IF ok THEN pc' = "run_initialized" /\ text' = text
       ELSE pc' = "run_returned" /\ text' = "bl_status_err_platform"
  /\ RunUnchanged

\* A system call made by bootloader_run_initialized() or below it
RunSysCall(call) ==
  /\ pc = "run_initialized"
  /\ Len(sys_calls) <= MaxCalls
  /\ sys_calls' = Append(sys_calls, call)
  /\ pc' = IF call \in SysCallsNoReturn THEN "run_halted" ELSE pc
  /\ text' = text
  /\ RunUnchanged

\* bootloader_run_initialized() returns a status
RunReturn ==
  /\ pc = "run_initialized"
  /\ sys_calls' = bootloader_run_return(sys_calls)
  /\ pc' = "run_returned"
  /\ \E status \in {"bl_status_normal_exit", "bl_status_upgrade_complete",
                    "bl_status_err_arg", "bl_status_err_internal",
                    "bl_status_err_pubkeys"} : text' = status
  /\ RunUnchanged

RunNext ==
  \/ RunSysInit
  \/ \E call \in SysCallNames \cup SysCallsNoReturn : RunSysCall(call)
  \/ RunReturn

RunSpec == RunInit /\ [][RunNext]_vars

(***************************************************************************)
(* Properties                                                              *)
(***************************************************************************)
\* What the flash holds in the two Bootloader slots
SlotVer(i) == bl_icr_get_version(flash, bl_addr[i], _bl_sect_size)
SlotValid(i) == bl_icr_verify(flash, bl_addr[i], _bl_sect_size).ok
SlotOf(addr) == IF addr = _bl_copy1_start THEN 0 ELSE 1
OtherSlot(i) == 1 - i
Slots == 0..(n_copies - 1)

\* Slot i carries the latest readable version (the first slot on a tie)
Latest(i) ==
  /\ SlotVer(i).ok
  /\ \/ ~SlotVer(OtherSlot(i)).ok
     \/ Gt32(SlotVer(i).pl_ver, SlotVer(OtherSlot(i)).pl_ver)
     \/ SlotVer(i).pl_ver = SlotVer(OtherSlot(i)).pl_ver /\ i < OtherSlot(i)

SameVersion(i) ==
  /\ SlotVer(i).ok
  /\ SlotVer(OtherSlot(i)).ok
  /\ SlotVer(i).pl_ver = SlotVer(OtherSlot(i)).pl_ver

\* The Start-up code has finished: it has started a copy or blinks
StartupDone == pc \in {"bootloader", "startup_fatal"}
Started(i) == pc = "bootloader" /\ mailbox.loaded_from = bl_addr[i]

\* C1 (as amended): when power is removed after a section has been erased,
\* the next boot starts a copy that passes full verification, and it is the
\* copy that ran the upgrade unless the record of the new copy is already
\* completely in flash.
C1_InterruptedUpgradeBootsValidCopy ==
  (StartupDone /\ erased # {}) =>
     /\ pc = "bootloader"
     /\ SlotValid(SlotOf(mailbox.loaded_from))
     /\ "boot" \notin icr_done => mailbox.loaded_from = upg_from

\* C1 as stated: after an interruption anywhere past the erase the selector
\* returns the copy that ran the upgrade.
C1_Original_AlwaysActiveCopy ==
  (StartupDone /\ erased # {}) =>
     (pc = "bootloader" /\ mailbox.loaded_from = upg_from)

C1_Witness ==
  /\ pc = "bootloader"
  /\ "boot" \in erased
  /\ "boot" \notin icr_done
  /\ mailbox.loaded_from = upg_from

\* C2: while the Bootloader runs, no step changes a byte of the copy it was
\* loaded from or the write protection of its sector, and every write made
\* for the boot section lies in the other slot.
ActiveSlotUntouched ==
  LET a == mailbox.loaded_from
  IN /\ MemRead(flash', a, _bl_sect_size) = MemRead(flash, a, _bl_sect_size)
     /\ (flash_get_sector_info(a) \in wrp') = (flash_get_sector_info(a) \in wrp)
     /\ (wr' # NoWrite /\ substage' = "boot") =>
          /\ wr'.addr >= get_inactive_bl_addr(a)
          /\ wr'.addr + Len(wr'.data) <= get_inactive_bl_addr(a) + _bl_sect_size
          /\ get_inactive_bl_addr(a) # a

C2_UpgradeWritesInactiveSlotOnly ==
  [][(mailbox # NoArgs /\ mailbox' = mailbox) => ActiveSlotUntouched]_vars

C2_Witness ==
  /\ pc = "complete"
  /\ file_metadata.boot_section.loaded
  /\ SlotValid(SlotOf(mailbox.loaded_from))
  /\ SlotValid(OtherSlot(SlotOf(mailbox.loaded_from)))

\* The record found in an erased section, and what the file holds for it
ErasedSectIcr(s) == icr_get(flash, SectAddr(s, upg_from), SectSize(s))

FilePayload(s) ==
  LET md == read_metadata(file).md
  IN file.sects[Sect(md, s).sect_idx].payload

PayloadInFlash(s) ==
  LET pl == FilePayload(s)
      g == ErasedSectIcr(s)
      a == SectAddr(s, upg_from)
  IN /\ MemRead(flash, a, Len(pl)) = pl
     /\ icr_main_pl_size(g.icr) = U32(Len(pl))
     /\ icr_main_pl_crc(g.icr) = crc32_fast(MemRead(flash, a, Len(pl)), ZERO32)

ApplicableThreshold(md) ==
  IF md.boot_section.loaded THEN bl_pubkey_set.bootloader_sig_threshold
                            ELSE bl_pubkey_set.main_fw_sig_threshold

\* C4: records are created only after multisig verification returned a
\* count that is at least the applicable threshold; otherwise the upgrade
\* stops in the "Signature Error" alert with no record written.
C4_IcrOnlyWithEnoughSignatures ==
  /\ pc \in {"create_icr", "protect", "report", "complete"} =>
       /\ verify_res >= 0
       /\ verify_res >= ApplicableThreshold(file_metadata)
  /\ (wr # NoWrite /\ pc = "create_icr") =>
       verify_res >= ApplicableThreshold(file_metadata)
  /\ (pc = "alert" /\ text = "Signature Error") =>
       /\ verify_res < ApplicableThreshold(file_metadata)
       /\ icr_done = {}
       /\ \A s \in erased : ~ErasedSectIcr(s).ok

C4_Witness ==
  /\ pc = "alert"
  /\ text = "Signature Error"
  /\ verify_res = 2
  /\ ~file_metadata.boot_section.loaded
  /\ erased = {"main"}

\* What the upgrade file must pass before the flash is changed
FileCompatibleAndNewer ==
  LET r == read_metadata(file)
      vc == check_versions(r.md, get_version_info(flash, mailbox.loaded_from),
                           "bl_flag_allow_rc_versions" \in flags)
  IN /\ file.present
     /\ r.ok
     /\ check_compatibility(r.md)
     /\ verify_payload_sections(file, r.md)
     /\ \/ vc = version_newer
        \/ /\ vc = version_same
           /\ r.md.main_section.loaded
           /\ ~bl_icr_verify(flash, _main_firmware_start,
                             _main_firmware_size).ok

\* The signatures of the file reach the applicable threshold
FileAuthentic ==
  LET r == read_metadata(file)
  IN r.ok /\ verify_multisig(file, r.md, bl_pubkey_set, FileMessage(file)).ok

\* C5 (as amended): the flash changes only for an upgrade file that has the
\* right format, is compatible, has intact payloads and is newer than what is
\* installed (or equal, with the installed Main Firmware failing
\* verification).
C5_FlashChangesOnlyAfterFileChecks ==
  [][flash' # flash => FileCompatibleAndNewer]_vars

\* C5 as stated: the flash changes only for a file whose signatures have
\* been verified as well.
C5_Original_SignaturesBeforeErase ==
  [][flash' # flash => (FileCompatibleAndNewer /\ FileAuthentic)]_vars

C5_Witness ==
  /\ pc = "write"
  /\ erased = {"boot", "main"}
  /\ version_check = version_newer
  /\ wr # NoWrite

\* C6: when the upgrade is complete, every section of the file has a record
\* that validates and whose pl_crc is the CRC-32 of the first pl_size bytes
\* of the section.
C6_CompleteUpgradeHasValidIcrs ==
  pc = "complete" =>
    \A s \in {"boot", "main"} :
       Sect(file_metadata, s).loaded =>
         LET a == SectAddr(s, mailbox.loaded_from)
             g == icr_get(flash, a, SectSize(s))
         IN /\ g.ok
            /\ FitsNat(icr_main_pl_size(g.icr))
            /\ ToNat(icr_main_pl_size(g.icr)) <= SectSize(s)
            /\ icr_main_pl_crc(g.icr) =
                 crc32_fast(MemRead(flash, a, ToNat(icr_main_pl_size(g.icr))),
                            ZERO32)

C6_Witness ==
  /\ pc = "complete"
  /\ file_metadata.boot_section.loaded
  /\ file_metadata.main_section.loaded

\* C7: when a Bootloader copy is started, the mailbox CRC validates and
\* loaded_from is the base of the slot select_bootloader() returns, a slot
\* that passes full verification.
C7_MailboxNamesVerifiedSlot ==
  pc = "bootloader" =>
    /\ bl_read_args(mailbox)
    /\ mailbox.loaded_from \in {_bl_copy1_start, _bl_copy2_start}
    /\ mailbox.startup_version = startup_version_tag
    /\ \A w \in StackWords :
         /\ select_bootloader(flash, w).found
         /\ select_bootloader(flash, w).addr = mailbox.loaded_from
    /\ SlotValid(SlotOf(mailbox.loaded_from))

C7_Witness ==
  /\ pc = "bootloader"
  /\ mailbox.loaded_from = _bl_copy2_start
  /\ SlotValid(1)
  /\ bl_read_args(mailbox)

\* The slot chosen by version fails verification while the other one passes
LatestFailsOtherValid(i) ==
  Latest(i) /\ ~SlotValid(i) /\ SlotValid(OtherSlot(i))

\* C8 (as amended): when the slot chosen by version fails verification and
\* the other slot is valid, the valid slot is started if both records carry
\* the same version; if the failing slot has the higher version no copy is
\* started and the error LED blinks twice.
C8_FallbackNeedsSameVersion ==
  StartupDone =>
    \A i \in Slots :
       LatestFailsOtherValid(i) =>
         IF SlotVer(i).pl_ver = SlotVer(OtherSlot(i)).pl_ver
         THEN Started(OtherSlot(i))
         ELSE pc = "startup_fatal" /\ n_blinks = startup_error_no_bootloader

\* C8 as stated: the valid slot is returned although the failing slot has
\* the higher version.
C8_Original_FallbackToLowerVersion ==
  StartupDone =>
    \A i \in Slots :
       (/\ LatestFailsOtherValid(i)
        /\ Gt32(SlotVer(i).pl_ver, SlotVer(OtherSlot(i)).pl_ver))
         => Started(OtherSlot(i))

C8_Witness ==
  /\ LatestFailsOtherValid(0)
  /\ SameVersion(0)
  /\ Started(1)

\* C9: a slot other than the one chosen by version is started only if that
\* one fails verification and the started slot has the same version and
\* passes verification; when neither the chosen slot nor such a replacement
\* passes, no copy is started, the mailbox stays unwritten and the error LED
\* blinks twice.
Startable(i) ==
  /\ SlotValid(i)
  /\ \/ Latest(i)
     \/ SameVersion(i) /\ ~SlotValid(OtherSlot(i))

C9_ReplacementOrNoBootloader ==
  StartupDone =>
    /\ pc = "bootloader" => Startable(SlotOf(mailbox.loaded_from))
    /\ pc = "startup_fatal" =>
         /\ \A i \in Slots : ~Startable(i)
         /\ n_blinks = startup_error_no_bootloader
         /\ mailbox = NoArgs

C9_Witness ==
  /\ pc = "startup_fatal"
  /\ n_blinks = startup_error_no_bootloader
  /\ \E i \in Slots :
       /\ LatestFailsOtherValid(i)
       /\ Gt32(SlotVer(i).pl_ver, SlotVer(OtherSlot(i)).pl_ver)

\* C10: the slot whose record carries the greater version, read without
\* verifying the payload, is the one started whenever it passes full
\* verification.
C10_LatestValidSlotStarted ==
  StartupDone =>
    \A i \in Slots : (Latest(i) /\ SlotValid(i)) => Started(i)

C10_Witness ==
  /\ Started(1)
  /\ SlotValid(0)
  /\ SlotValid(1)
  /\ Gt32(SlotVer(1).pl_ver, SlotVer(0).pl_ver)

(***************************************************************************)
(* Version policy                                                          *)
(***************************************************************************)
AllowRc == "bl_flag_allow_rc_versions" \in flags

MainFwIntact ==
  bl_icr_verify(flash, _main_firmware_start, _main_firmware_size).ok

\* check_versions() has returned and the flash is as it was when it ran
AfterVersionCheck ==
  \/ pc = "verify_payload"
  \/ pc = "exit" /\ text = "Version Check"
  \/ pc = "alert" /\ text = "Version Check Failed"

\* The version installed for a section, as a word, and the one in the file
InstalledVersion(s) ==
  IF s = "boot"
  THEN bl_icr_get_version(flash, mailbox.loaded_from, _bl_sect_size).pl_ver
  ELSE bl_icr_get_version(flash, _main_firmware_start,
                          _main_firmware_size).pl_ver

FileVersion(s) == Sect(file_metadata, s).header.pl_ver

SectNames == {"boot", "main"}
LoadedSects == { s \in SectNames : Sect(file_metadata, s).loaded }

\* C11: the write protection and the contents of the flash change only
\* after a version check that returned newer or same, a check that returned
\* same lets the upgrade go on only to repair the Main Firmware, and the
\* results rc_blocked, older and invalid leave the device in the
\* "Version Check Failed" alert.
C11_FlashModifiedOnlyForNewerOrSelfHeal ==
  /\ [][(flash' # flash \/ wrp' # wrp) =>
          version_check \in {version_newer, version_same}]_vars
  /\ []((pc = "verify_payload" /\ version_check = version_same) =>
          (file_metadata.main_section.loaded /\ ~MainFwIntact))
  /\ [](version_check \in {version_rc_blocked, version_older, version_invalid}
          => (pc = "alert" /\ text = "Version Check Failed"))

C11_Witness ==
  /\ pc = "write"
  /\ version_check = version_same
  /\ "main" \in erased
  /\ wr # NoWrite

\* C12 (as amended): with the result same the upgrade is skipped with the
\* "Version Check" notice when the file has no Main Firmware section or the
\* installed Main Firmware passes verification, and goes on otherwise.
C12_SameVersionSkipsUnlessFileHealsMain ==
  (AfterVersionCheck /\ version_check = version_same) =>
     IF ~file_metadata.main_section.loaded \/ MainFwIntact
     THEN pc = "exit" /\ text = "Version Check"
     ELSE pc = "verify_payload"

\* C12 as stated: the upgrade is skipped exactly when the installed Main
\* Firmware passes verification.
C12_Original_SkipOnlyWhenMainIntact ==
  (AfterVersionCheck /\ version_check = version_same) =>
     IF MainFwIntact
     THEN pc = "exit" /\ text = "Version Check"
     ELSE pc = "verify_payload"

C12_Witness ==
  /\ pc = "exit"
  /\ text = "Version Check"
  /\ version_check = version_same
  /\ ~file_metadata.main_section.loaded
  /\ ~MainFwIntact

\* Results of the version check from the lowest rank to the highest
RankOrder == << version_same, version_newer, version_rc_blocked,
                version_older, version_invalid >>
Rank(r) == CHOOSE k \in 1..Len(RankOrder) : RankOrder[k] = r

SectionVersionResult(s) ==
  check_version(FileVersion(s), InstalledVersion(s), AllowRc)

SectionResults ==
  { SectionVersionResult(s) : s \in LoadedSects }
    \cup (IF LoadedSects # SectNames THEN {version_same} ELSE {})

\* C13: the result of check_versions() is one of the results of the
\* sections, an absent section counted as same, and no section has a result
\* of higher rank.
C13_AggregatedResultIsHighestRank ==
  AfterVersionCheck =>
    /\ version_check \in SectionResults
    /\ \A r \in SectionResults : Rank(r) <= Rank(version_check)

C13_Witness ==
  /\ pc = "alert"
  /\ text = "Version Check Failed"
  /\ LoadedSects = SectNames
  /\ SectionVersionResult("boot") = version_older
  /\ SectionVersionResult("main") = version_same
  /\ version_check = version_older

\* A section of the file carries a release candidate: a version other than
\* none with pl_ver mod 100 <= 98
HasRcSection ==
  \E s \in LoadedSects : FileVersion(s) # 0 /\ FileVersion(s) % 100 <= 98

\* The version of the section is none, or a release below the installed one
SectOlderOrInvalid(s) ==
  \/ FileVersion(s) = 0
  \/ /\ FileVersion(s) % 100 = 99
     /\ Gt32(InstalledVersion(s), U32(FileVersion(s)))

\* C14 (as amended): without the flag that allows them, a file with a
\* release candidate ends in the "Version Check Failed" alert; the result is
\* rc_blocked unless a section of the file is older or invalid, results that
\* rank higher.
C14_RcFileBlockedByRank ==
  (AfterVersionCheck /\ ~AllowRc /\ HasRcSection) =>
     /\ pc = "alert"
     /\ text = "Version Check Failed"
     /\ IF \E s \in LoadedSects : SectOlderOrInvalid(s)
        THEN version_check \in {version_older, version_invalid}
        ELSE version_check = version_rc_blocked

\* C14 as stated: the result is rc_blocked whenever a section carries a
\* release candidate.
C14_Original_AlwaysRcBlocked ==
  (AfterVersionCheck /\ ~AllowRc /\ HasRcSection) =>
     (pc = "alert" /\ version_check = version_rc_blocked)

C14_Witness ==
  /\ pc = "alert"
  /\ text = "Version Check Failed"
  /\ ~AllowRc
  /\ version_check = version_rc_blocked
  /\ file_metadata.boot_section.loaded
  /\ FileVersion("boot") = RcVersion(3)

(***************************************************************************)
(* Checks of the upgrade file                                              *)
(***************************************************************************)
\* What the file holds for a section of the metadata
FileSect(s) == file.sects[Sect(file_metadata, s).sect_idx]

SectionCompatible(s) ==
  LET hdr == FileSect(s).header
  IN /\ hdr.platform = PLATFORM_ID
     /\ hdr.base_addr = (IF s = "boot" THEN _bl_image_base
                                       ELSE _main_firmware_start)
     /\ hdr.pl_size + BL_FW_SECT_OVERHEAD <= SectSize(s)

SectionCrcValid(s) ==
  LET hdr == FileSect(s).header
      pl == FileSect(s).payload
  IN /\ Len(pl) >= hdr.pl_size
     /\ crc32_fast(SubSeq(pl, 1, hdr.pl_size), ZERO32) = hdr.pl_crc

\* C15: the write protection and the contents of the flash change only
\* when every Payload section of the file has the platform identifier of the
\* device, the base address of its role, a size that leaves 64 bytes of its
\* flash region free, and a payload in the file with the CRC of its header.
C15_FlashModifiedOnlyForCompatibleIntactSections ==
  [][(flash' # flash \/ wrp' # wrp) =>
       /\ LoadedSects # {}
       /\ \A s \in LoadedSects : SectionCompatible(s) /\ SectionCrcValid(s)]_vars

C15_Witness ==
  /\ pc = "erase"
  /\ substage = "main"
  /\ erased = {"boot"}
  /\ LoadedSects = SectNames
  /\ \A s \in SectNames : SectionCompatible(s) /\ SectionCrcValid(s)

\* Sections of a file with the given name
SectsNamed(f, name) ==
  { k \in 1..Len(f.sects) : f.sects[k].header.name = name }

\* The file is made of sections with valid headers that fill it exactly:
\* one Signature section of at most 32 records with a valid CRC, and one or
\* two Payload sections named boot and main, each name at most once
WellFormedFile(f) ==
  /\ f.trailing = 0
  /\ \A k \in 1..Len(f.sects) :
        /\ f.sects[k].header.hdr_ok
        /\ f.sects[k].header.pl_size > 0
        /\ f.sects[k].header.pl_size <= BL_PAYLOAD_SIZE_MAX
        /\ f.sects[k].header.pl_size = SectPlBytes(f.sects[k])
        /\ f.sects[k].header.name
             \in {BL_SIGNATURE_SECT_NAME, NAME_BOOT, NAME_MAIN}
  /\ Cardinality(SectsNamed(f, BL_SIGNATURE_SECT_NAME)) = 1
  /\ \A k \in SectsNamed(f, BL_SIGNATURE_SECT_NAME) :
        /\ f.sects[k].header.pl_size <= MAX_SIGSECTION_SIZE
        /\ f.sects[k].header.pl_crc =
             crc32_fast(SigPayloadBytes(f.sects[k].payload), ZERO32)
  /\ Cardinality(SectsNamed(f, NAME_BOOT)) <= 1
  /\ Cardinality(SectsNamed(f, NAME_MAIN)) <= 1
  /\ SectsNamed(f, NAME_BOOT) \cup SectsNamed(f, NAME_MAIN) # {}

\* Stages of do_upgrade_with_file() in the order of the code
StageOrder ==
  << "read_metadata", "check_compatibility", "check_versions",
     "verify_payload", "unprotect", "erase", "write", "hash", "verify_sig",
     "create_icr", "protect", "report", "complete" >>
Stages == { StageOrder[k] : k \in 1..Len(StageOrder) }
StageRank(stage) == CHOOSE k \in 1..Len(StageOrder) : StageOrder[k] = stage

\* do_upgrade() has stopped with a fatal error or an alert; the search for
\* the upgrade file stops the run before do_upgrade() is entered
UpgradeStopped ==
  pc \in {"fatal", "alert"} /\ text # "More than one upgrade file found"

\* read_metadata() has returned in this run of the Bootloader
MetadataRead ==
  \/ pc \in (Stages \ {"read_metadata"})
  \/ UpgradeStopped
  \/ pc = "exit" /\ text = "Version Check"

IncorrectFormat ==
  pc = "fatal" /\ text = "Incorrect format of an upgrade file"

\* C16: once read_metadata() has returned, the upgrade has stopped with
\* "Incorrect format of an upgrade file" exactly when the file is not well
\* formed, and no step taken before or in that stop changes the flash.
C16_MetadataReadIffWellFormed ==
  /\ [](MetadataRead => (IncorrectFormat <=> ~WellFormedFile(file)))
  /\ [][(pc \in {"bootloader", "read_metadata"} \/ IncorrectFormat) =>
          (flash' = flash /\ wrp' = wrp)]_vars

C16_Witness ==
  /\ IncorrectFormat
  /\ file.trailing = 5
  /\ file_metadata = NoMetadata

\* The device shows a message until power is removed
Halted == pc \in {"fatal", "alert", "complete"}

KatsPassed == kats.run /\ kats.sha256 /\ kats.ecdsa

\* C18: the stages of the upgrade are entered, and the flash is changed,
\* only in a run whose known answer tests have both passed; a run in which
\* one of them failed has returned bl_status_err_internal with no metadata
\* read from the file.
C18_KatsPassBeforeUpgrade ==
  /\ []((pc \in Stages \/ UpgradeStopped) => KatsPassed)
  /\ []((kats.run /\ ~KatsPassed) =>
          /\ pc = "exit"
          /\ text = "bl_status_err_internal"
          /\ file_metadata = NoMetadata
          /\ erased = {})
  /\ [][(flash' # flash \/ wrp' # wrp) => KatsPassed]_vars

C18_Witness ==
  /\ pc = "exit"
  /\ text = "bl_status_err_internal"
  /\ file.present
  /\ kats.run
  /\ kats.sha256
  /\ ~kats.ecdsa

\* A list of keys ends with a record of prefix 0x00 and has the prefix 0x04
\* in every other record
KeyListWellFormed(list) ==
  /\ Len(list) >= 1
  /\ list[Len(list)].prefix = 0
  /\ \A k \in 1..(Len(list) - 1) : list[k].prefix = 4

NumKeys(list) == Len(list) - 1

KeySetWellFormed(p_set) ==
  /\ KeyListWellFormed(p_set.vendor_pubkeys)
  /\ KeyListWellFormed(p_set.maintainer_pubkeys)
  /\ 1 <= p_set.bootloader_sig_threshold
  /\ p_set.bootloader_sig_threshold <= NumKeys(p_set.vendor_pubkeys)
  /\ 1 <= p_set.main_fw_sig_threshold
  /\ p_set.main_fw_sig_threshold <=
       NumKeys(p_set.vendor_pubkeys) + NumKeys(p_set.maintainer_pubkeys)

\* bootloader_run_initialized() has gone past the validation of the keys
KeysValidated == pc \in Stages \cup {"fatal", "alert", "exit"}

\* C19: the run has returned bl_status_err_pubkeys exactly when the set of
\* keys is not well formed, and with such a set the known answer tests are
\* not run, no metadata is read and the flash stays as it is.
C19_InvalidKeySetStopsTheRun ==
  /\ [](KeysValidated =>
          ((pc = "exit" /\ text = "bl_status_err_pubkeys")
             <=> ~KeySetWellFormed(bl_pubkey_set)))
  /\ [](~KeySetWellFormed(bl_pubkey_set) =>
          (~kats.run /\ file_metadata = NoMetadata /\ erased = {}))
  /\ [][~KeySetWellFormed(bl_pubkey_set) =>
          (flash' = flash /\ wrp' = wrp)]_vars

C19_Witness ==
  /\ pc = "exit"
  /\ text = "bl_status_err_pubkeys"
  /\ file.present
  /\ KeyListWellFormed(bl_pubkey_set.vendor_pubkeys)
  /\ bl_pubkey_set.bootloader_sig_threshold
       > NumKeys(bl_pubkey_set.vendor_pubkeys)

KeyIds(list) == { list[k].id : k \in 1..NumKeys(list) }

\* Keys that count for the file: those of the vendor, and those of the
\* maintainers when the file has no Bootloader section
KeysInScope ==
  KeyIds(bl_pubkey_set.vendor_pubkeys)
    \cup (IF file_metadata.boot_section.loaded THEN {}
          ELSE KeyIds(bl_pubkey_set.maintainer_pubkeys))

\* verify_multisig() has returned in this run
SignaturesVerified ==
  \/ pc \in {"create_icr", "protect", "report", "complete"}
  \/ pc = "alert" /\ text = "Signature Error"

\* C20: a count returned by the verification of the signatures is the
\* number of signatures of the file made with a key of the vendor or, for a
\* file without a Bootloader section, with a key of the vendor or of a
\* maintainer.
C20_OnlyKeysInScopeCount ==
  (SignaturesVerified /\ verify_res >= 0) =>
     verify_res =
       Cardinality({ i \in 1..Len(file_metadata.sig_payload) :
                       file_metadata.sig_payload[i].by \in KeysInScope })

C20_Witness ==
  /\ pc = "alert"
  /\ text = "Signature Error"
  /\ file_metadata.boot_section.loaded
  /\ verify_res = 1
  /\ \E i \in 1..Len(file_metadata.sig_payload) :
        file_metadata.sig_payload[i].by
          \in KeyIds(bl_pubkey_set.maintainer_pubkeys)

(***************************************************************************)
(* Arguments and the search for the upgrade file                           *)
(***************************************************************************)
\* loaded_from is neither slot base, or the CRC is checked and differs from
\* the CRC-32 of the first 28 bytes of the argument structure
ArgsRejected(p_args, p_flags) ==
  \/ p_args.loaded_from \notin {bl_addr[0], bl_addr[1]}
  \/ /\ "bl_flag_no_args_crc_check" \notin p_flags
     /\ p_args.struct_crc #
          crc32_fast(ArgsBytes(p_args.loaded_from, p_args.startup_version),
                     ZERO32)

\* A step of bootloader_run() from its entry
RunReturns == pc \in {"bootloader", "testbench"} /\ pc' \notin {pc, "startup"}

\* C21: a run entered with rejected arguments returns bl_status_err_arg in
\* that step: no file is looked for (two matching files raise no fatal
\* error), the known answer tests are not run, no metadata is read and the
\* flash and its protection stay as they are.
C21_RejectedArgumentsReturnErrArg ==
  /\ [][(RunReturns /\ ArgsRejected(mailbox', flags)) =>
          /\ pc' = "exit"
          /\ text' = "bl_status_err_arg"
          /\ flash' = flash
          /\ wrp' = wrp]_vars
  /\ []((pc = "exit" /\ text = "bl_status_err_arg") =>
          /\ ArgsRejected(mailbox, flags)
          /\ ~kats.run
          /\ file_metadata = NoMetadata
          /\ erased = {})

C21_Witness ==
  /\ pc = "exit"
  /\ text = "bl_status_err_arg"
  /\ file.present
  /\ file.others > 0
  /\ mailbox.loaded_from = _bl_copy1_start
  /\ "bl_flag_no_args_crc_check" \notin flags
  /\ ~bl_read_args(mailbox)

\* The run has called the fatal handler from the search for the file
TwoFilesFatal ==
  pc = "fatal" /\ text = "More than one upgrade file found"

\* C22: a run that reaches the search for the upgrade file with two or more
\* matching files in the root directory calls the fatal handler; the known
\* answer tests are not run, no metadata is read, and the flash and its
\* protection are not changed in that run.
C22_TwoUpgradeFilesAreFatal ==
  /\ [][(/\ RunReturns
         /\ ~ArgsRejected(mailbox', flags)
         /\ KeySetWellFormed(bl_pubkey_set)
         /\ file.present /\ file.others >= 1) =>
            (TwoFilesFatal' /\ flash' = flash /\ wrp' = wrp)]_vars
  /\ [](TwoFilesFatal =>
          /\ file.others >= 1
          /\ ~kats.run
          /\ file_metadata = NoMetadata
          /\ erased = {})
  /\ [][TwoFilesFatal => (flash' = flash /\ wrp' = wrp)]_vars
  /\ []((file.present /\ file.others >= 1) => pc \notin Stages)

C22_Witness ==
  /\ TwoFilesFatal
  /\ file.others = 1
  /\ mailbox.loaded_from = _bl_copy1_start
  /\ bl_read_args(mailbox)

(***************************************************************************)
(* Order of the operations and progress                                    *)
(***************************************************************************)
\* Stages that work on the sections one after the other
SectionStages ==
  {"stage_erase_flash", "stage_write_flash", "stage_calc_hash",
   "stage_create_icr"}

BothLoaded ==
  file_metadata.boot_section.loaded /\ file_metadata.main_section.loaded

LoadedFlags ==
  (IF file_metadata.boot_section.loaded THEN {"substage_boot"} ELSE {})
  \cup (IF file_metadata.main_section.loaded THEN {"substage_main"} ELSE {})

\* Report k is the one made when the operation of a stage on a section
\* has finished
Finished(k, stage, sub) ==
  /\ progress[k].stage = stage
  /\ progress[k].substage = sub
  /\ progress[k].op_complete = progress[k].op_total

\* C23: in the erase, write, hash and record creation stages no report of
\* the Main Firmware comes before the report that ends the operation on the
\* Bootloader, when the file has both; no report of a later stage comes
\* before the stage has ended for every section of the file; and the
\* sections erased and the records written follow the same order.
C23_BootBeforeMainStageByStage ==
  /\ \A j \in 1..Len(progress) :
       /\ (/\ BothLoaded
           /\ progress[j].stage \in SectionStages
           /\ progress[j].substage = "substage_main") =>
             /\ \E i \in 1..(j - 1) :
                   Finished(i, progress[j].stage, "substage_boot")
             /\ \A i \in (j + 1)..Len(progress) :
                   ~(/\ progress[i].stage = progress[j].stage
                     /\ progress[i].substage = "substage_boot")
       /\ \A stage \in SectionStages :
            StageIdx(progress[j].stage) > StageIdx(stage) =>
              \A sub \in LoadedFlags :
                \E i \in 1..(j - 1) : Finished(i, stage, sub)
       /\ \A i \in 1..(j - 1) :
            StageIdx(progress[i].stage) <= StageIdx(progress[j].stage)
  /\ ("main" \in erased /\ file_metadata.boot_section.loaded) =>
       "boot" \in erased
  /\ ("main" \in icr_done /\ file_metadata.boot_section.loaded) =>
       "boot" \in icr_done
  /\ pc \in {"write", "hash", "verify_sig", "create_icr", "protect", "report",
              "complete"} =>
       erased = { s \in {"boot", "main"} : Sect(file_metadata, s).loaded }

C23_Witness ==
  /\ pc = "complete"
  /\ BothLoaded
  /\ erased = {"boot", "main"}
  /\ icr_done = {"boot", "main"}
  /\ \E k \in 1..Len(progress) :
       Finished(k, "stage_create_icr", "substage_main")
  /\ \E k \in 1..Len(progress) :
       Finished(k, "stage_calc_hash", "substage_boot")

\* C24: the percents given to blsys_progress() in one run never decrease,
\* from one report to any later one.
C24_PercentNeverDecreases ==
  \A i \in 1..Len(progress) : \A j \in i..Len(progress) :
    progress[i].percent_x100 <= progress[j].percent_x100

C24_Witness ==
  /\ pc = "complete"
  /\ BothLoaded
  /\ \E k \in 1..(Len(progress) - 1) :
       /\ progress[k].stage = "stage_write_flash"
       /\ progress[k].substage = "substage_boot"
       /\ progress[k + 1].stage = "stage_write_flash"
       /\ progress[k + 1].substage = "substage_main"
  /\ \E k \in 1..(Len(progress) - 1) :
       /\ progress[k].stage = "stage_erase_flash"
       /\ progress[k + 1].stage = "stage_write_flash"
       /\ progress[k].percent_x100 > 0

\* The last stage of the table, stage_protect_flash, has run and ended
ProtectStageComplete ==
  /\ pc \in {"report", "complete"}
  /\ \A sub \in LoadedFlags :
       \E k \in 1..Len(progress) : Finished(k, "stage_protect_flash", sub)

\* C25: when every stage of the table has ended for every section of the
\* file, the last percent given to blsys_progress() is 10000. (An upgrade of
\* a build without WRITE_PROTECTION completes without the last stage, and
\* its last percent is 9900.)
C25_LastPercentIs10000 ==
  /\ ProtectStageComplete =>
       progress[Len(progress)].percent_x100 = 10000
  /\ pc \in {"report", "complete"} =>
       /\ ProtectStageComplete <=> write_protection
       /\ ~write_protection => progress[Len(progress)].percent_x100 = 9900

C25_Witness ==
  /\ pc = "complete"
  /\ BothLoaded
  /\ ProtectStageComplete
  /\ progress[Len(progress)].percent_x100 = 10000
  /\ progress[Len(progress)].substage = "substage_main"

\* Signature records of the file, as read_metadata() has loaded them
SigRecs == file_metadata.sig_payload

\* Two records of the file carry the same fingerprint
HasDuplicate ==
  \E i \in 1..Len(SigRecs) : \E j \in (i + 1)..Len(SigRecs) :
     SigRecs[i].fingerprint = SigRecs[j].fingerprint

\* The fingerprint of record idx is that of a key looked up for the file
Matching(idx) == SigRecs[idx].fingerprint \in KeysInScope

\* Record idx is a signature of the file made with the key it names
Verifies(idx) ==
  SigRecs[idx].by = SigRecs[idx].fingerprint /\ SigRecs[idx].over = "file"

\* Reports of stage_verify_sig: one before the first record and one after
\* each record the loop has got through
VerifySigReports ==
  Cardinality({ k \in 1..Len(progress) : progress[k].stage = "stage_verify_sig" })

\* C26: with two signature records of the same fingerprint in the file, the
\* verification returns blsig_err_duplicating_sig and has looked at no
\* record: it has made no report of the stage, and the result is the same
\* whether the records would verify or not.
C26_DuplicatesStopBeforeVerification ==
  (SignaturesVerified /\ HasDuplicate) =>
     /\ verify_res = blsig_err_duplicating_sig
     /\ VerifySigReports = 0
     /\ pc = "alert"

C26_Witness ==
  /\ pc = "alert"
  /\ text = "Signature Error"
  /\ verify_res = blsig_err_duplicating_sig
  /\ Len(SigRecs) = 3
  /\ SigRecs[1].fingerprint = SigRecs[3].fingerprint
  /\ Matching(1) /\ Verifies(1) /\ ~Verifies(3)
  /\ Matching(2) /\ Verifies(2)

\* C27: with no duplicates, a record of a key of the key set whose
\* signature does not verify makes the result blsig_err_verification_fail,
\* whatever the other records are, and the loop stops at the first such
\* record: the reports of the stage are the one before the loop and one for
\* each record before it.
C27_BadSignatureFailsAtOnce ==
  (SignaturesVerified /\ ~HasDuplicate
     /\ \E idx \in 1..Len(SigRecs) : Matching(idx) /\ ~Verifies(idx)) =>
     /\ verify_res = blsig_err_verification_fail
     /\ pc = "alert"
     /\ \E idx \in 1..Len(SigRecs) :
          /\ Matching(idx) /\ ~Verifies(idx)
          /\ \A j \in 1..(idx - 1) : Matching(j) => Verifies(j)
          /\ VerifySigReports = idx

C27_Witness ==
  /\ pc = "alert"
  /\ verify_res = blsig_err_verification_fail
  /\ Len(SigRecs) = 3
  /\ Matching(1) /\ Verifies(1)
  /\ Matching(2) /\ ~Verifies(2)
  /\ Matching(3) /\ Verifies(3)
  /\ VerifySigReports = 2

\* C28: a result that is not an error is the number of records of the file
\* that name a key of the key set and verify, which is also the number of
\* keys of the key set with such a record, a key of two lists counted once;
\* records of other keys add nothing, and with no duplicates and every
\* record of a key of the key set verifying the result is not an error.
C28_CountOfMatchingValidRecords ==
  /\ (SignaturesVerified /\ verify_res >= 0) =>
       /\ verify_res =
            Cardinality({ idx \in 1..Len(SigRecs) : Matching(idx) /\ Verifies(idx) })
       /\ verify_res =
            Cardinality({ k \in KeysInScope :
                            \E idx \in 1..Len(SigRecs) :
                               SigRecs[idx].fingerprint = k /\ Verifies(idx) })
  /\ (SignaturesVerified /\ ~HasDuplicate
        /\ \A idx \in 1..Len(SigRecs) : Matching(idx) => Verifies(idx)) =>
       verify_res >= 0

C28_Witness ==
  /\ SignaturesVerified
  /\ verify_res = 2
  /\ Len(SigRecs) = 3
  /\ \E idx \in 1..3 : ~Matching(idx)
  /\ \E idx \in 1..3 :
       /\ SigRecs[idx].fingerprint \in KeyIds(bl_pubkey_set.vendor_pubkeys)
       /\ SigRecs[idx].fingerprint \in KeyIds(bl_pubkey_set.maintainer_pubkeys)
       /\ ~file_metadata.boot_section.loaded

\* bl_icr_create() of the section in hand has called blsys_flash_write()
IcrWriteStarted == pc = "create_icr" /\ wr # NoWrite

\* First address after the section in hand
SectEnd == SectAddr(substage, mailbox.loaded_from) + SectSize(substage)

\* C29 as stated: bl_icr_create() writes the record at
\* sect_addr + sect_size - 32, the last 32 bytes of the section.
C29_IcrInLast32Bytes ==
  IcrWriteStarted =>
     /\ wr.addr = SectEnd - BL_ICR_SIZE
     /\ Len(wr.data) = BL_ICR_SIZE

\* C29: bl_icr_create() writes the 32 bytes of the record at
\* sect_addr + sect_size - 64: the record is followed by the 32 bytes kept
\* for the version check record, which end the section and which the write
\* does not reach; when the upgrade is complete the record of each section
\* of the file is read back from that address and those last 32 bytes are
\* still erased.
C29_IcrAt64BytesFromEnd ==
  /\ IcrWriteStarted =>
       /\ wr.addr = SectEnd - BL_ICR_SIZE - BL_VCR_SIZE
       /\ Len(wr.data) = BL_ICR_SIZE
       /\ wr.addr + Len(wr.data) = SectEnd - BL_VCR_SIZE
  /\ pc = "complete" =>
       \A s \in {"boot", "main"} :
          Sect(file_metadata, s).loaded =>
            LET e == SectAddr(s, mailbox.loaded_from) + SectSize(s)
            IN /\ icr_validate(MemRead(flash, e - BL_ICR_SIZE - BL_VCR_SIZE,
                                       BL_ICR_SIZE))
               /\ icr_pl_ver(MemRead(flash, e - BL_ICR_SIZE - BL_VCR_SIZE,
                                     BL_ICR_SIZE))
                    = U32(Sect(file_metadata, s).header.pl_ver)
               /\ \A a \in (e - BL_VCR_SIZE)..(e - 1) : flash[a] = 255

C29_Witness ==
  /\ IcrWriteStarted
  /\ wr.pos = Len(wr.data)
  /\ substage = "main"
  /\ file_metadata.boot_section.loaded
  /\ wr.addr = SectEnd - 64
  /\ MemRead(flash, wr.addr, BL_ICR_SIZE) = wr.data

\* 4200000000, the first number above BL_VERSION_MAX
VersionAboveMax == <<0, 234, 86, 250>>

\* Where the record of the section of the test is
IcrTestRecAddr == IcrTestAddr + IcrTestSize - BL_ICR_SIZE - BL_VCR_SIZE

\* Addresses whose byte the step changes
Changed == { a \in FlashAddrs : flash'[a] # flash[a] }

\* Payload size in the record of the section of the test
IcrTestStoredSize == ToNat(icr_main_pl_size(MemRead(flash, IcrTestRecAddr, BL_ICR_SIZE)))

\* C30: for a section with sect_size >= pl_size + 64 and a version number
\* ver, bl_icr_create() succeeds and bl_icr_verify() then returns true with
\* the version ver; after that, a change of a byte of the payload or of one
\* of the first 28 bytes of the record, which its CRC covers, makes
\* bl_icr_verify() return false, while a change of a byte between the
\* payload and the record or behind the record leaves it true. (The version
\* is not checked by bl_icr_create(): a record made for a number above
\* BL_VERSION_MAX does not validate.)
C30_CreateVerifyRoundTrip ==
  [][/\ \A pl_size \in IcrTestPlSizes : \A pl_ver \in IcrTestVersions :
          (IcrTestCreate(pl_size, pl_ver)
             /\ IcrTestSize >= pl_size + BL_ICR_SIZE + BL_VCR_SIZE) =>
            /\ pc' = "icr_created"
            /\ bl_icr_verify(flash', IcrTestAddr, IcrTestSize)
                 = [ok |-> TRUE, pl_ver |-> U32(pl_ver)]
            /\ ~icr_validate(icr_struct_create_main(flash, IcrTestAddr,
                               IcrTestSize, pl_size, VersionAboveMax).icr)
     /\ IcrTestCorrupt =>
          /\ (\E a \in Changed :
                \/ a < IcrTestAddr + IcrTestStoredSize
                \/ a >= IcrTestRecAddr
                     /\ a < IcrTestRecAddr + ICR_CRC_CHECKED_SIZE)
               => ~bl_icr_verify(flash', IcrTestAddr, IcrTestSize).ok
          /\ (\A a \in Changed :
                \/ a >= IcrTestAddr + IcrTestStoredSize /\ a < IcrTestRecAddr
                \/ a >= IcrTestRecAddr + BL_ICR_SIZE)
               => bl_icr_verify(flash', IcrTestAddr, IcrTestSize)
                    = bl_icr_verify(flash, IcrTestAddr, IcrTestSize)
  ]_vars

\* The last byte of the payload of a section with a record of version
\* 1.22.134-rc5 and sect_size = pl_size + 64 has been changed
C30_Witness ==
  /\ pc = "icr_corrupted"
  /\ icr_get(flash, IcrTestAddr, IcrTestSize).ok
  /\ icr_pl_ver(icr_get(flash, IcrTestAddr, IcrTestSize).icr) = U32(102213405)
  /\ IcrTestStoredSize + BL_FW_SECT_OVERHEAD = IcrTestSize
  /\ \A a \in IcrTestAddr..(IcrTestAddr + IcrTestStoredSize - 2) : flash[a] = 24
  /\ flash[IcrTestAddr + IcrTestStoredSize - 1] = 25
  /\ ~bl_icr_verify(flash, IcrTestAddr, IcrTestSize).ok

\* The record of the section of the test, as the flash memory holds it
IcrTestRec == MemRead(flash, IcrTestRecAddr, BL_ICR_SIZE)

\* The checks of icr_validate() on the record of the section of the test
IcrTestRecValidates ==
  /\ icr_magic(IcrTestRec) = BL_ICR_MAGIC
  /\ icr_struct_rev(IcrTestRec) = BL_ICR_STRUCT_REV
  /\ crc32_fast(SubSeq(IcrTestRec, 1, ICR_CRC_CHECKED_SIZE), ZERO32)
       = SubSeq(IcrTestRec, ICR_CRC_CHECKED_SIZE + 1, BL_ICR_SIZE)
  /\ Le32(icr_pl_ver(IcrTestRec), BL_VERSION_MAX)

\* Both words of aux_sect of the record are zero
IcrTestAuxZeroed == SubSeq(IcrTestRec, 21, 28) = ZERO32 \o ZERO32

\* The CRC of the payload area the record names is the one it stores
IcrTestPayloadMatches ==
  /\ FitsNat(icr_main_pl_size(IcrTestRec))
  /\ IcrTestStoredSize > 0
  /\ IcrTestAddr + IcrTestStoredSize - 1 \in FlashAddrs
  /\ crc32_fast(MemRead(flash, IcrTestAddr, IcrTestStoredSize), ZERO32)
       = icr_main_pl_crc(IcrTestRec)

\* C31 as stated: bl_icr_get_version() yields the version exactly when the
\* checks of bl_icr_verify() other than the CRC of the payload pass, that
\* aux_sect is zeroed among them.
C31_GetVersionChecksAuxSect ==
  bl_icr_get_version(flash, IcrTestAddr, IcrTestSize).ok
    <=> (IcrTestRecValidates /\ IcrTestAuxZeroed)

\* C31: bl_icr_get_version() yields pl_ver exactly when the record passes
\* icr_validate() (magic, revision, CRC of the record, version not above
\* BL_VERSION_MAX), and BL_VERSION_NA otherwise; it makes neither of the
\* checks of icr_verify_main(), so it yields the version also when the
\* payload does not match the recorded CRC and when aux_sect is not zeroed.
\* bl_icr_verify() returns true exactly when, in addition, aux_sect is
\* zeroed and the CRC of the payload matches.
C31_GetVersionValidatesRecordOnly ==
  LET gv == bl_icr_get_version(flash, IcrTestAddr, IcrTestSize)
      vf == bl_icr_verify(flash, IcrTestAddr, IcrTestSize)
  IN /\ gv.ok <=> IcrTestRecValidates
     /\ gv.pl_ver = IF gv.ok THEN icr_pl_ver(IcrTestRec) ELSE BL_VERSION_NA
     /\ vf.ok <=> (IcrTestRecValidates /\ IcrTestAuxZeroed
                     /\ IcrTestPayloadMatches)
     /\ vf.ok => vf.pl_ver = gv.pl_ver

\* A record with an auxiliary section over a payload that matches: the
\* version is read, the section does not verify
C31_Witness ==
  /\ pc = "icr_found"
  /\ bl_icr_get_version(flash, IcrTestAddr, IcrTestSize)
       = [ok |-> TRUE, pl_ver |-> U32(102213405)]
  /\ ~IcrTestAuxZeroed
  /\ IcrTestPayloadMatches
  /\ ~bl_icr_verify(flash, IcrTestAddr, IcrTestSize).ok

\* The bytes at a placement of the section of the test
VcrTestBytes(place) == MemRead(flash, VcrTestPlaceAddr(place), BL_VCR_SIZE)

\* The bytes at the placement are those of a record bl_vcr_create() makes
\* for the version
VcrTestHolds(place, pl_ver) ==
  VcrTestBytes(place) = bl_vcr_create(IcrTestAddr, IcrTestSize, pl_ver, place).data

\* Versions of the records of the selected placements that are as created
VcrTestValidVersions(sel) ==
  { v \in VcrTestVersions :
      \E p \in {bl_vcr_starting, bl_vcr_ending} :
         p \subseteq sel /\ VcrTestHolds(p, v) }

\* A placement holds a record as created, or one with a byte changed that
\* does not validate
VcrTestNoForgery ==
  \A p \in {bl_vcr_starting, bl_vcr_ending} :
     vcr_validate(VcrTestBytes(p)) => \E v \in VcrTestVersions : VcrTestHolds(p, v)

\* C32: bl_vcr_get_version() returns the highest version of the valid
\* records at the selected placements (starting, ending, or both for
\* bl_vcr_any) and BL_VERSION_NA if none is valid: with both valid and
\* bl_vcr_any it is the greater of the two, with one of them changed it is
\* the version of the other.
C32_HighestValidVersion ==
  /\ VcrTestNoForgery
  /\ \A sel \in {bl_vcr_starting, bl_vcr_ending, bl_vcr_any} :
       LET got == bl_vcr_get_version(flash, IcrTestAddr, IcrTestSize, sel)
           valid == VcrTestValidVersions(sel)
       IN IF valid = {} THEN got = BL_VERSION_NA
          ELSE /\ \E v \in valid : got = U32(v)
               /\ \A v \in valid : Le32(U32(v), got)

\* The starting record is valid, the ending record of a higher version has
\* a byte changed
C32_Witness ==
  /\ pc = "vcr_test"
  /\ VcrTestHolds(bl_vcr_starting, ReleaseVersion(1))
  /\ VcrTestBytes(bl_vcr_ending) =
       [bl_vcr_create(IcrTestAddr, IcrTestSize, 102213405, bl_vcr_ending).data
          EXCEPT ![BL_VCR_SIZE] = Xor8(@, 1)]
  /\ bl_vcr_get_version(flash, IcrTestAddr, IcrTestSize, bl_vcr_any)
       = U32(ReleaseVersion(1))
  /\ bl_vcr_get_version(flash, IcrTestAddr, IcrTestSize, bl_vcr_ending)
       = BL_VERSION_NA

\* Offset of the key = 0 that ends the list read from offset p on, -1 if
\* the list has none
RECURSIVE AttrTerminator(_, _)
AttrTerminator(buf, p) ==
  IF p >= Len(buf) THEN -1
  ELSE IF buf[p + 1] = 0 THEN p
  ELSE IF p + 1 >= Len(buf) THEN -1
  ELSE AttrTerminator(buf, p + 2 + buf[p + 2])

AttrScanning == pc \in {"attr_validate", "attr_find"}

\* The scan is inside the buffer; a finished validation has one verdict; a
\* lookup has read no offset outside the buffer or after the end mark
AttrScanInBounds ==
  /\ attr_scan.p_list <= Len(attr_list)
  /\ AttrScanning => attr_scan.res = <<>>
  /\ pc = "attr_valid" => attr_scan.res = <<TRUE>>
  /\ pc = "attr_invalid" => attr_scan.res = <<FALSE>>
  /\ pc \in {"attr_find", "attr_found", "attr_not_found"} =>
       /\ attr_scan.reads \subseteq 0..(Len(attr_list) - 1)
       /\ AttrTerminator(attr_list, 0) >= 0 =>
            \A r \in attr_scan.reads : r <= AttrTerminator(attr_list, 0)

\* A pass of either loop returns or moves p_list forward
AttrScanAdvances ==
  AttrScanning =>
    \/ pc' \in {"attr_valid", "attr_invalid", "attr_found", "attr_not_found"}
    \/ pc' = pc /\ attr_scan'.p_list > attr_scan.p_list

\* C33: for every attribute buffer the scanner terminates (each pass of the
\* loop returns or advances in the buffer) with exactly one verdict, valid
\* or invalid, and find_attribute reads no byte beyond the buffer or past
\* the key = 0 that ends the list.
C33_ScannerTerminatesInBounds ==
  [](AttrScanInBounds) /\ [][AttrScanAdvances]_vars

\* A lookup has passed an attribute and stopped at the end mark of a list
\* that has bytes after it
C33_Witness ==
  /\ pc = "attr_not_found"
  /\ AttrTerminator(attr_list, 0) >= 2
  /\ AttrTerminator(attr_list, 0) < Len(attr_list) - 1
  /\ AttrTerminator(attr_list, 0) \in attr_scan.reads

\* a <= b on the digits 1..i of two numbers of the same count of digits
RECURSIVE LeDigitsUpTo(_, _, _)
LeDigitsUpTo(a, b, i) ==
  IF i = 0 THEN TRUE
  ELSE \/ a[i] < b[i]
       \/ a[i] = b[i] /\ LeDigitsUpTo(a, b, i - 1)

LeDigits(a, b) == LeDigitsUpTo(a, b, Len(a))

\* complete * 10000 and res * total, exact, in five digits
PercentProduct == MulDigits(Digits16(percent_test.complete) \o <<0, 0>>, 10000, 0)
PercentTimesTotal(res) == MulDigits(Digits16(percent_test.total) \o <<0, 0>>, res, 0)

\* C34: bl_percent_x100(total, complete) is min(10000, complete * 10000 /
\* total) for 32-bit arguments: 10000 whenever complete >= total, else the
\* quotient rounded down, and the 64-bit product loses no bit.
C34_PercentIsCappedQuotient ==
  pc = "percent_done" =>
    LET res == percent_test.res[1]
    IN /\ Le32(res, U32(10000))
       /\ Le32(percent_test.total, percent_test.complete) => res = U32(10000)
       /\ Gt32(percent_test.total, percent_test.complete) =>
            /\ PercentProduct[5] = 0
            /\ SubSeq(PercentProduct, 1, 4) = Mul64(percent_test.complete, 10000)
            /\ ToNat(res) < 10000
            /\ LeDigits(PercentTimesTotal(ToNat(res)), PercentProduct)
            /\ ~LeDigits(PercentTimesTotal(ToNat(res) + 1), PercentProduct)
       /\ (/\ FitsNat(percent_test.total)
           /\ Le32(percent_test.complete, U32(214748))) =>
            ToNat(res) = bl_percent_x100(ToNat(percent_test.total),
                                         ToNat(percent_test.complete))

\* The percent of arguments whose product needs more than 32 bits
C34_Witness ==
  /\ pc = "percent_done"
  /\ percent_test.complete = <<254, 255, 255, 255>>
  /\ percent_test.total = <<255, 255, 255, 255>>
  /\ percent_test.res = <<U32(9999)>>

\* C35: on every run of bootloader_run, blsys_init is called before any
\* other system call, and no system call follows blsys_deinit.
C35_InitFirstDeinitLast ==
  \A i \in 1..Len(sys_calls) :
     /\ (sys_calls[i] = "blsys_init") = (i = 1)
     /\ sys_calls[i] = "blsys_deinit" => i = Len(sys_calls)

\* A run that made system calls has returned a status
C35_Witness ==
  /\ pc = "run_returned"
  /\ text = "bl_status_upgrade_complete"
  /\ Len(sys_calls) >= 6
  /\ sys_calls[Len(sys_calls)] = "blsys_deinit"
  /\ sys_calls[2] = "blsys_flash_map_get_items"

\* The metadata of the upgrade file on the media
FileMd == read_metadata(file)

\* The run that started from upg_from has written and recorded every
\* Payload section of the file, the Bootloader among them
UpgradeWithBootDone ==
  /\ upg_from # 0
  /\ FileMd.ok
  /\ FileMd.md.boot_section.loaded
  /\ "boot" \in icr_done
  /\ FileMd.md.main_section.loaded => "main" \in icr_done

\* The Bootloader of the file is newer than the copy the upgrade ran from
FileBootNewerThanActive ==
  Gt32(U32(FileMd.md.boot_section.header.pl_ver),
       bl_icr_get_version(flash, upg_from, _bl_sect_size).pl_ver)

\* C36: after a complete upgrade with a Bootloader newer than the active
\* one, the Start-up selector of the next boot starts the copy that was
\* written, the one that was inactive during the upgrade.
C36_NextBootStartsNewCopy ==
  (/\ pc \in {"bootloader", "startup_fatal"}
   /\ UpgradeWithBootDone
   /\ FileBootNewerThanActive) =>
     /\ pc = "bootloader"
     /\ mailbox.loaded_from \in {_bl_copy1_start, _bl_copy2_start}
     /\ mailbox.loaded_from # upg_from

\* The upgrade ran from the first copy and the second one is started
C36_Witness ==
  /\ pc = "bootloader"
  /\ UpgradeWithBootDone
  /\ FileBootNewerThanActive
  /\ upg_from = _bl_copy1_start
  /\ bl_icr_get_version(flash, upg_from, _bl_sect_size).ok
  /\ mailbox.loaded_from = _bl_copy2_start

\* The Payload sections of the upgrade file on the media
FileSects == { s \in SectNames : Sect(FileMd.md, s).loaded }

\* The run that started from upg_from has written and recorded every
\* Payload section of the file
UpgradeDone ==
  /\ upg_from # 0
  /\ FileMd.ok
  /\ FileSects # {}
  /\ icr_done = FileSects

\* Every section of the file is installed: its version check against the
\* copy that runs and the Main Firmware gives same, and the Main Firmware
\* verifies if the file has one
FileInstalled ==
  /\ \A s \in FileSects :
        check_version(Sect(FileMd.md, s).header.pl_ver, InstalledVersion(s),
                      AllowRc) = version_same
  /\ "main" \in FileSects => MainFwIntact

\* A run of the Bootloader that has changed nothing yet
RunUntouched ==
  /\ pc \notin {"startup", "startup_fatal", "bootloader", "testbench"}
  /\ erased = {}
  /\ FileMd.ok
  /\ FileSects # {}

\* C37: after a successful upgrade and a reboot the copy that is started
\* finds every section of the file installed; a run that finds this gets
\* the version result same, leaves with the "Version Check" notice, and
\* changes neither the write protection nor the contents of the flash.
C37_NoUpgradeLoop ==
  /\ []((pc = "bootloader" /\ UpgradeDone) => FileInstalled)
  /\ []((AfterVersionCheck /\ RunUntouched /\ FileInstalled) =>
          /\ version_check = version_same
          /\ pc = "exit"
          /\ text = "Version Check")
  /\ [][(RunUntouched /\ FileInstalled) => (flash' = flash /\ wrp' = wrp)]_vars

\* The reboot after an upgrade of both the Bootloader and the Main Firmware
C37_Witness ==
  /\ pc = "bootloader"
  /\ UpgradeDone
  /\ FileSects = {"boot", "main"}
  /\ mailbox.loaded_from # upg_from

\* Addresses and sectors of the two Bootloader copies and of the Main
\* Firmware
BootSlotAddrs ==
  { a \in FlashAddrs :
      \/ a >= _bl_copy1_start /\ a < _bl_copy1_start + _bl_sect_size
      \/ a >= _bl_copy2_start /\ a < _bl_copy2_start + _bl_sect_size }
MainFwAddrs ==
  { a \in FlashAddrs :
      a >= _main_firmware_start /\ a < _main_firmware_start + _main_firmware_size }
BootSlotSectors ==
  flash_sector_bitmap(_bl_copy1_start, _bl_sect_size)
    \cup flash_sector_bitmap(_bl_copy2_start, _bl_sect_size)
MainFwSectors == flash_sector_bitmap(_main_firmware_start, _main_firmware_size)

\* A step leaves the contents and the write protection of a region alone
RegionUnchanged(addrs, sectors) ==
  /\ \A a \in addrs : flash'[a] = flash[a]
  /\ wrp' \cap sectors = wrp \cap sectors

\* C38: with a file that holds only a Main Firmware section no step erases,
\* writes or changes the protection of either Bootloader copy, and with a
\* file that holds only a Bootloader section none does so in the Main
\* Firmware region.
C38_OtherRegionUntouched ==
  [][/\ (FileMd.ok /\ FileSects = {"main"}) =>
           RegionUnchanged(BootSlotAddrs, BootSlotSectors)
     /\ (FileMd.ok /\ FileSects = {"boot"}) =>
           RegionUnchanged(MainFwAddrs, MainFwSectors)]_vars

\* An upgrade of the Bootloader alone is complete on a build with write
\* protection
C38_Witness ==
  /\ pc = "complete"
  /\ FileMd.ok
  /\ FileSects = {"boot"}
  /\ icr_done = {"boot"}
  /\ write_protection
  /\ MainFwSectors \subseteq wrp

\* Addresses of the payload area of the section of the test: the bytes
\* before offset sect_size - 64
IcrTestPayloadArea ==
  IcrTestAddr..(IcrTestAddr + IcrTestSize - BL_FW_SECT_OVERHEAD - 1)

\* C39: bl_icr_verify() computes the CRC of the payload only over bytes of
\* the payload area of the section: the pl_size of a stored record is never
\* used to read at or beyond offset sect_size - 64 or past the end of the
\* section.
C39_VerifyReadsPayloadAreaOnly ==
  bl_icr_verify_reads(flash, IcrTestAddr, IcrTestSize) \subseteq IcrTestPayloadArea

\* The section holds a record with a valid CRC whose pl_size is the size of
\* the section, and the CRC of the payload is computed up to its last byte
C39_ReadsRecordArea ==
  /\ pc = "icr_oversized"
  /\ icr_get(flash, IcrTestAddr, IcrTestSize).ok
  /\ IcrTestStoredSize = IcrTestSize
  /\ IcrTestAddr + IcrTestSize - 1
       \in bl_icr_verify_reads(flash, IcrTestAddr, IcrTestSize)

\* Neither Bootloader slot holds a record that passes icr_validate()
NoSlotWithRecord ==
  \A idx \in 0..(n_copies - 1) : ~sel_versions(flash)[idx].ok

\* C40: when neither slot holds a structurally valid integrity check
\* record, select_bootloader() accesses no element outside its two-entry
\* version array and ends in the fatal error no_bootloader.
C40_NoRecordNoAccessOutsideArray ==
  [][(StartupSelect /\ NoSlotWithRecord) =>
       /\ \A stack_word \in StackWords :
            select_bootloader_accesses(flash, stack_word)
              \subseteq 0..(n_copies - 1)
       /\ pc' = "startup_fatal"
       /\ n_blinks' = startup_error_no_bootloader
    ]_vars

\* The part of C40 the code keeps: with no record in either slot the
\* Start-up code ends in the fatal error no_bootloader whatever the word
\* before the array holds
C40_NoRecordEndsFatal ==
  [][(StartupSelect /\ NoSlotWithRecord) =>
       /\ \A stack_word \in StackWords :
            ~select_bootloader(flash, stack_word).found
       /\ pc' = "startup_fatal"
       /\ n_blinks' = startup_error_no_bootloader
    ]_vars

\* The Start-up code has ended in no_bootloader with no record in either
\* slot, after comparing version[0] with version[-1]
C40_ReadsBeforeArray ==
  /\ pc = "startup_fatal"
  /\ n_blinks = startup_error_no_bootloader
  /\ NoSlotWithRecord
  /\ \A stack_word \in StackWords :
       -1 \in select_bootloader_accesses(flash, stack_word)

====
